---- MODULE Spec2Model ----
(***************************************************************************)
(* Interview-content generation workflow of ace-prep-panel: the edge       *)
(* functions that call the model endpoint, parse its answer and write      *)
(* topics, topic_content_versions and topic_current_version rows.          *)
(* Every await of a handler (store call, model call) is one step.          *)
(***************************************************************************)
EXTENDS Integers, Sequences, FiniteSets, TLC

(* ------------------------------ bounds -------------------------------- *)
MaxRequests == 2
MaxVersions == 3
MaxTopics == 2

Reqs == 1..MaxRequests
Users == {"u1", "u2"}

(* ------------------------------- text --------------------------------- *)
\* A string is a sequence of one-character strings.
UpperCase == <<"A","B","C","D","E","F","G","H","I","J","K","L","M","N","O","P","Q","R","S","T","U","V","W","X","Y","Z">>
LowerCase == <<"a","b","c","d","e","f","g","h","i","j","k","l","m","n","o","p","q","r","s","t","u","v","w","x","y","z">>
Digits == {"0","1","2","3","4","5","6","7","8","9"}

ToLowerChar(c) ==
  IF \E i \in 1..26 : UpperCase[i] = c
  THEN LowerCase[CHOOSE i \in 1..26 : UpperCase[i] = c]
  ELSE c

toLowerCase(s) == [i \in 1..Len(s) |-> ToLowerChar(s[i])]

includes(s, m) ==
  \E i \in 1..(Len(s) - Len(m) + 1) : SubSeq(s, i, i + Len(m) - 1) = m

IsSpace(c) == c \in {" ", "\t", "\n"}

RECURSIVE trimStart(_)
trimStart(s) == IF s # <<>> /\ IsSpace(Head(s)) THEN trimStart(Tail(s)) ELSE s

RECURSIVE trimEnd(_)
trimEnd(s) ==
  IF s # <<>> /\ IsSpace(s[Len(s)]) THEN trimEnd(SubSeq(s, 1, Len(s) - 1)) ELSE s

trim(s) == trimEnd(trimStart(s))

Pad(n) == [i \in 1..n |-> "x"]

(* -------------------------------- slug -------------------------------- *)
IsSlugChar(c) == c \in Digits \/ \E i \in 1..26 : LowerCase[i] = c

RECURSIVE SkipRun(_)
SkipRun(s) == IF s # <<>> /\ ~IsSlugChar(Head(s)) THEN SkipRun(Tail(s)) ELSE s

\* .replace(/[^a-z0-9]+/g, '-')
RECURSIVE ReplaceRuns(_)
ReplaceRuns(s) ==
  IF s = <<>> THEN <<>>
  ELSE IF IsSlugChar(Head(s)) THEN <<Head(s)>> \o ReplaceRuns(Tail(s))
  ELSE <<"-">> \o ReplaceRuns(SkipRun(Tail(s)))

RECURSIVE StripLeadingHyphens(_)
StripLeadingHyphens(s) ==
  IF s # <<>> /\ Head(s) = "-" THEN StripLeadingHyphens(Tail(s)) ELSE s

RECURSIVE StripTrailingHyphens(_)
StripTrailingHyphens(s) ==
  IF s # <<>> /\ s[Len(s)] = "-"
  THEN StripTrailingHyphens(SubSeq(s, 1, Len(s) - 1)) ELSE s

\* .replace(/^-+|-+$/g, '')
StripHyphens(s) == StripTrailingHyphens(StripLeadingHyphens(s))

\* A faulty variant: the hyphens are stripped before the runs are replaced.
SlugStripFirst(title) == ReplaceRuns(StripHyphens(toLowerCase(title)))

\* create-custom-topic: the slug of a title.
Slug(title) == StripHyphens(ReplaceRuns(toLowerCase(title)))

MarkerNote == <<"n","o","t","e",":">>
MarkerErrorExtracting == <<"e","r","r","o","r"," ","e","x","t","r","a","c","t","i","n","g">>
MarkerRequiresIntegration == <<"r","e","q","u","i","r","e","s"," ","i","n","t","e","g","r","a","t","i","o","n">>
MarkerPlaceholder == <<"p","l","a","c","e","h","o","l","d","e","r">>

DefaultSourceNotes == <<"G","e","n","e","r","a","t","e"," ","c","o","n","t","e","n","t"," ","f","o","r"," ","t","h","i","s"," ","i","n","t","e","r","v","i","e","w"," ","p","r","e","p","a","r","a","t","i","o","n"," ","t","o","p","i","c",".">>

FallbackPre1 == <<"C","a","n"," ","y","o","u"," ","e","l","a","b","o","r","a","t","e"," ","o","n"," ","y","o","u","r"," ","e","x","p","e","r","i","e","n","c","e"," ","w","i","t","h"," ">>
FallbackPost1 == <<"?">>
FallbackPre2 == <<"W","h","a","t"," ","c","h","a","l","l","e","n","g","e","s"," ","d","i","d"," ","y","o","u"," ","f","a","c","e"," ","w","h","e","n"," ","w","o","r","k","i","n","g"," ","o","n"," ">>
FallbackPost2 == <<"?">>
FallbackPre3 == <<"H","o","w"," ","d","i","d"," ","y","o","u"," ","m","e","a","s","u","r","e"," ","s","u","c","c","e","s","s"," ","i","n"," ","y","o","u","r"," ">>
FallbackPost3 == <<" ","p","r","o","j","e","c","t","s","?">>
FallbackPre4 == <<"W","h","a","t"," ","w","o","u","l","d"," ","y","o","u"," ","d","o"," ","d","i","f","f","e","r","e","n","t","l","y"," ","i","f"," ","y","o","u"," ","h","a","d"," ","t","o"," ","a","p","p","r","o","a","c","h"," ">>
FallbackPost4 == <<" ","a","g","a","i","n","?">>

(* --------------------------- request inputs --------------------------- *)
TitleKafka == <<"A","p","a","c","h","e"," ","K","a","f","k","a">>
TitlePython == <<"P","y","t","h","o","n">>
TitleCustom == <<"C","u","s","t","o","m"," ","T","o","p","i","c">>
\* Titles 1..3 are what a client sends (the empty title is the missing one);
\* the last is the fixed title of part_001's direct generation.
Titles == <<TitleKafka, TitlePython, <<>>, TitleCustom>>
ClientTitles == 1..3
CustomTitle == 4

NoteText == <<"N","o","t","e",":"," ","E","r","r","o","r"," ","e","x","t","r","a","c","t","i","n","g"," ","P","D","F"," ","c","o","n","t","e","n","t","."," ","T","h","e"," ","f","i","l","e"," ","m","a","y"," ","b","e"," ","c","o","r","r","u","p","t","e","d",".">>
\* Source notes a client sends: empty, short, just over the threshold, and
\* an extraction note, a marker in capitals, a placeholder text.
UpperMarker == <<"R","E","Q","U","I","R","E","S"," ","I","N","T","E","G","R","A","T","I","O","N">>
PlaceholderNote == <<"P","l","a","c","e","h","o","l","d","e","r">>
Sources ==
  { <<>>, Pad(50), Pad(51), NoteText, Pad(40) \o UpperMarker,
    Pad(45) \o PlaceholderNote }

(* ------------------------- JSON values (model) ------------------------ *)
JStr(s) == [t |-> "str", s |-> s]
JNum == [t |-> "num", s |-> <<>>]
JObj == [t |-> "obj", s |-> <<>>]
JArr(a) == [t |-> "arr", a |-> a]
JUndef == [t |-> "undef", a |-> <<>>]
JNotArr == [t |-> "str", a |-> <<>>]

Question1 == <<"W","h","y","?">>
Blank == <<" "," ">>

\* cross_questions values the model may return.
CqCandidates ==
  { JUndef, JArr(<<>>), JArr(<<JStr(Blank), JNum>>),
    JArr(<<JStr(Question1), JStr(Blank)>>) }


\* What the model endpoint may answer to a content prompt: an HTTP status and,
\* for 200, the form of choices[0].message.content ("none": the field is
\* missing) with the fields of the JSON object it holds.
MResp(status, form, kp, script, cq) ==
  [status |-> status, form |-> form, kp |-> kp, script |-> script, cq |-> cq]

ContentResponses ==
  { MResp(429, "none", FALSE, FALSE, JUndef),
    MResp(200, "none", FALSE, FALSE, JUndef),
    MResp(200, "garbage", FALSE, FALSE, JUndef),
    MResp(200, "fenced", TRUE, TRUE, JArr(<<JStr(Question1), JStr(Blank)>>)) }
  \cup { MResp(200, "json", TRUE, TRUE, cq) : cq \in CqCandidates }

\* Slug of a topic row that exists before any request (a topic created earlier).
SeedSlug == <<"p","y","t","h","o","n">>

\* Topic proposals of the model: each carries a slug and a title.
Proposals == << [slug |-> SeedSlug, title |-> 2],
                [slug |-> Slug(TitleKafka), title |-> 1] >>

\* Longest proposal list answered to analyze-documents, and to the batch
\* handler that also generates content for every topic of the list.
MaxBatch == 2
MaxTabs == 1
MaxLoop == 2

ProposalLists(maxLen) ==
  UNION { [1..n -> 1..Len(Proposals)] : n \in 0..maxLen }

\* What the model may answer to a topics prompt ("none": no topics array).
TopicsResponses(maxLen) ==
  { [status |-> 429, form |-> "none", list |-> <<>>],
    [status |-> 200, form |-> "garbage", list |-> <<>>],
    [status |-> 200, form |-> "none", list |-> <<>>] }
  \cup { [status |-> 200, form |-> "json", list |-> l] : l \in ProposalLists(maxLen) }

(* --------------------------- prompt builder --------------------------- *)
UseSpecificDetails == "Use the specific details from the source content above to create personalized, relevant responses."
SourceLimited == "Source content is limited. Generate realistic data engineer responses for this topic using industry best practices and common scenarios."
NoGuidance == ""

MeaningfulLength == 50

\* part_001 and generate-topic-content: the source text is meaningful.
hasRealContent(sourceContent) ==
  /\ sourceContent # <<>>
  /\ Len(sourceContent) > MeaningfulLength
  /\ ~includes(toLowerCase(sourceContent), MarkerNote)
  /\ ~includes(toLowerCase(sourceContent), MarkerErrorExtracting)
  /\ ~includes(toLowerCase(sourceContent), MarkerRequiresIntegration)

\* The CONTENT GUIDANCE line of the user prompt.
ContentGuidance(sourceContent) ==
  IF hasRealContent(sourceContent) THEN UseSpecificDetails ELSE SourceLimited

\* generate-content/index.ts: its markers are "placeholder" and "requires
\* integration".
hasRealContent0(sourceContent) ==
  /\ sourceContent # <<>>
  /\ Len(sourceContent) > MeaningfulLength
  /\ ~includes(toLowerCase(sourceContent), MarkerPlaceholder)
  /\ ~includes(toLowerCase(sourceContent), MarkerRequiresIntegration)

ContentGuidance0(sourceContent) ==
  IF hasRealContent0(sourceContent) THEN UseSpecificDetails ELSE SourceLimited

\* serve of generate-topic-content: sourceNotes || default.
GtcSourceContent(sourceNotes) ==
  IF sourceNotes # <<>> THEN sourceNotes ELSE DefaultSourceNotes

(* --------------------------- response parser -------------------------- *)
\* parseAIResponse on the form of the raw text: JSON.parse, then the fenced
\* block; "{}" stands for a missing content field.
parseAIResponse(form) == form \in {"json", "fenced", "none"}

\* The fields destructured from the parsed object.
ParsedKeyPoints(m) == IF m.form # "none" /\ m.kp THEN <<"point">> ELSE <<>>
ParsedScript(m) == IF m.form # "none" /\ m.script THEN "story" ELSE ""
ParsedCrossQuestions(m) == IF m.form # "none" THEN m.cq ELSE JUndef

(* ------------------- JSON.parse and the fence pattern ------------------ *)
\* Raw model text is a sequence of characters.  JSON.parse is modelled on
\* texts built from objects, arrays, digit runs, strings without escapes and
\* the three literals; a parsed value is kept as its text without whitespace.
ParseFail == [ok |-> FALSE, next |-> 0, val |-> <<>>]

ParseOk(next, val) == [ok |-> TRUE, next |-> next, val |-> val]

RECURSIVE SkipWs(_, _)
SkipWs(s, i) ==
  IF i <= Len(s) /\ IsSpace(s[i]) THEN SkipWs(s, i + 1) ELSE i

RECURSIVE StringEnd(_, _)
StringEnd(s, j) ==
  IF j > Len(s) THEN 0
  ELSE IF s[j] = "\"" THEN j
  ELSE StringEnd(s, j + 1)

RECURSIVE NumberEnd(_, _)
NumberEnd(s, j) ==
  IF j <= Len(s) /\ s[j] \in Digits THEN NumberEnd(s, j + 1) ELSE j

LiteralNull == <<"n","u","l","l">>
LiteralTrue == <<"t","r","u","e">>
LiteralFalse == <<"f","a","l","s","e">>

StartsWith(s, i, w) ==
  i + Len(w) - 1 <= Len(s) /\ SubSeq(s, i, i + Len(w) - 1) = w

RECURSIVE ParseValue(_, _)
RECURSIVE ParseMembers(_, _, _)
RECURSIVE ParseElements(_, _, _)

ParseValue(s, i0) ==
  LET i == SkipWs(s, i0) IN
  IF i > Len(s) THEN ParseFail
  ELSE IF s[i] = "{"
  THEN LET j == SkipWs(s, i + 1) IN
       IF j <= Len(s) /\ s[j] = "}" THEN ParseOk(j + 1, <<"{", "}">>)
       ELSE ParseMembers(s, j, <<"{">>)
  ELSE IF s[i] = "["
  THEN LET j == SkipWs(s, i + 1) IN
       IF j <= Len(s) /\ s[j] = "]" THEN ParseOk(j + 1, <<"[", "]">>)
       ELSE ParseElements(s, j, <<"[">>)
  ELSE IF s[i] = "\""
  THEN LET e == StringEnd(s, i + 1) IN
       IF e = 0 THEN ParseFail ELSE ParseOk(e + 1, SubSeq(s, i, e))
  ELSE IF s[i] \in Digits
  THEN LET e == NumberEnd(s, i) IN ParseOk(e, SubSeq(s, i, e - 1))
  ELSE IF StartsWith(s, i, LiteralNull) THEN ParseOk(i + 4, LiteralNull)
  ELSE IF StartsWith(s, i, LiteralTrue) THEN ParseOk(i + 4, LiteralTrue)
  ELSE IF StartsWith(s, i, LiteralFalse) THEN ParseOk(i + 5, LiteralFalse)
  ELSE ParseFail

\* The members of an object from position i on: "key" : value , ... }
ParseMembers(s, i, acc) ==
  IF i > Len(s) \/ s[i] # "\"" THEN ParseFail
  ELSE LET e == StringEnd(s, i + 1) IN
  IF e = 0 THEN ParseFail
  ELSE LET c == SkipWs(s, e + 1) IN
  IF c > Len(s) \/ s[c] # ":" THEN ParseFail
  ELSE LET v == ParseValue(s, c + 1) IN
  IF ~v.ok THEN ParseFail
  ELSE LET n == SkipWs(s, v.next)
           member == acc \o SubSeq(s, i, e) \o <<":">> \o v.val IN
  IF n > Len(s) THEN ParseFail
  ELSE IF s[n] = "," THEN ParseMembers(s, SkipWs(s, n + 1), member \o <<",">>)
  ELSE IF s[n] = "}" THEN ParseOk(n + 1, member \o <<"}">>)
  ELSE ParseFail

\* The elements of an array from position i on: value , ... ]
ParseElements(s, i, acc) ==
  LET v == ParseValue(s, i) IN
  IF ~v.ok THEN ParseFail
  ELSE LET n == SkipWs(s, v.next) IN
  IF n > Len(s) THEN ParseFail
  ELSE IF s[n] = "," THEN ParseElements(s, SkipWs(s, n + 1), acc \o v.val \o <<",">>)
  ELSE IF s[n] = "]" THEN ParseOk(n + 1, acc \o v.val \o <<"]">>)
  ELSE ParseFail

\* JSON.parse(text): a value, or a SyntaxError.
Thrown(error) == [ok |-> FALSE, val |-> <<>>, error |-> error]

Returned(val) == [ok |-> TRUE, val |-> val, error |-> ""]

JSONParseText(text) ==
  LET v == ParseValue(text, 1) IN
  IF v.ok /\ SkipWs(text, v.next) = Len(text) + 1
  THEN Returned(v.val)
  ELSE Thrown("SyntaxError")

\* /```(?:json)?\s*(\{[\s\S]*?\})\s*```/ tried at position p: the end of the
\* captured group, or 0.  The group starts at GroupStart(s, p).
\* The grave accent U+0060, which a string of this language cannot hold.
Backtick == "grave"

Fence == <<Backtick, Backtick, Backtick>>
JsonTag == <<"j","s","o","n">>

GroupStart(s, p) ==
  SkipWs(s, IF StartsWith(s, p + 3, JsonTag) THEN p + 7 ELSE p + 3)

RECURSIVE GroupEnd(_, _)
GroupEnd(s, e) ==
  IF e > Len(s) THEN 0
  ELSE IF s[e] = "}" /\ StartsWith(s, SkipWs(s, e + 1), Fence) THEN e
  ELSE GroupEnd(s, e + 1)

MatchAt(s, p) ==
  IF StartsWith(s, p, Fence) /\ GroupStart(s, p) <= Len(s) /\ s[GroupStart(s, p)] = "{"
  THEN GroupEnd(s, GroupStart(s, p) + 1)
  ELSE 0

\* rawContent.match(...): the captured group of the leftmost match, or none.
NoMatch == [found |-> FALSE, group |-> <<>>]

RECURSIVE MatchFrom(_, _)
MatchFrom(s, p) ==
  IF p > Len(s) THEN NoMatch
  ELSE IF MatchAt(s, p) # 0
  THEN [found |-> TRUE, group |-> SubSeq(s, GroupStart(s, p), MatchAt(s, p))]
  ELSE MatchFrom(s, p + 1)

jsonMatch(rawContent) == MatchFrom(rawContent, 1)

\* A faulty variant: a text that cannot be parsed yields the empty object.
parseOrEmptyObject(rawContent) ==
  IF JSONParseText(rawContent).ok THEN JSONParseText(rawContent)
  ELSE IF jsonMatch(rawContent).found /\ JSONParseText(jsonMatch(rawContent).group).ok
  THEN JSONParseText(jsonMatch(rawContent).group)
  ELSE Returned(<<"{", "}">>)

\* _shared/utils.ts, first parseAIResponse: one error for every failure.
parseAIResponseText(rawContent) ==
  IF JSONParseText(rawContent).ok THEN JSONParseText(rawContent)
  ELSE IF jsonMatch(rawContent).found /\ JSONParseText(jsonMatch(rawContent).group).ok
  THEN JSONParseText(jsonMatch(rawContent).group)
  ELSE Thrown("Error: Invalid response format from AI")

\* _shared/utils.ts, second parseAIResponse: two messages.
parseAIResponseText2(rawContent) ==
  IF JSONParseText(rawContent).ok THEN JSONParseText(rawContent)
  ELSE IF jsonMatch(rawContent).found
  THEN IF JSONParseText(jsonMatch(rawContent).group).ok
       THEN JSONParseText(jsonMatch(rawContent).group)
       ELSE Thrown("Error: Invalid JSON")
  ELSE Thrown("Error: No valid JSON found")

\* part_001, generateTopicContent: the same steps inline; a failure returns
\* from the function without a value.
Gc1ParseText(rawContent) ==
  IF JSONParseText(rawContent).ok THEN JSONParseText(rawContent)
  ELSE IF jsonMatch(rawContent).found /\ JSONParseText(jsonMatch(rawContent).group).ok
  THEN JSONParseText(jsonMatch(rawContent).group)
  ELSE Thrown("return")

\* No parse has run.
NotParsed == [ok |-> FALSE, val |-> <<>>, error |-> ""]

\* JSON texts a model may answer with: objects (empty, flat, nested, with
\* inner whitespace, with a string that holds a brace and a fence), an array,
\* a number and a string.
TextEmptyObject == <<"{", "}">>
TextFlatObject == <<"{", "\"", "a", "\"", ":", "1", "}">>
TextNestedObject ==
  <<"{", "\"", "a", "\"", ":", "{", "\"", "b", "\"", ":", "1", "}", "}">>
TextSpacedObject ==
  <<"{", " ", "\"", "a", "\"", " ", ":", "\n", "[", "1", ",", " ", "2", "]", " ", "}">>
TextFenceInString ==
  <<"{", "\"", "a", "\"", ":", "\"", "}", Backtick, Backtick, Backtick, "\"", "}">>
TextArray == <<"[", "1", "]">>
TextNumber == <<"1">>
TextString == <<"\"", "a", "\"">>

JsonObjectTexts ==
  {TextEmptyObject, TextFlatObject, TextNestedObject, TextSpacedObject,
   TextFenceInString}

JsonTexts == JsonObjectTexts \cup {TextArray, TextNumber, TextString}

\* What may stand around a fenced body: the fence with or without the tag,
\* with whitespace or prose around it.
Wrappings ==
  { [pre |-> Fence \o JsonTag \o <<"\n">>, post |-> <<"\n">> \o Fence],
    [pre |-> Fence, post |-> Fence],
    [pre |-> <<" ", "\n">> \o Fence \o JsonTag \o <<" ", " ">>,
     post |-> <<" ">> \o Fence \o <<"\n">>],
    [pre |-> <<"H", "i", ":", " ">> \o Fence \o JsonTag \o <<"\n">>,
     post |-> <<"\n">> \o Fence \o <<" ", "o", "k">>] }

Wrap(w, body) == w.pre \o body \o w.post

FencedTexts == { [raw |-> Wrap(w, body), body |-> body] : w \in Wrappings, body \in JsonTexts }

\* Texts that are not JSON and hold no fenced JSON.
GarbageTexts ==
  { <<>>,
    <<"o", "o", "p", "s">>,
    <<"{">>,
    <<"{", "\"", "a", "\"", ":", "}">>,
    Fence \o <<" ">> \o Fence,
    Fence \o JsonTag \o <<"\n", "{", "b", "a", "d", "}", "\n">> \o Fence,
    Fence \o JsonTag \o <<"\n", "{", "\"", "a", "\"", ":", "1", "}">> }

RawTexts == JsonTexts \cup { f.raw : f \in FencedTexts } \cup GarbageTexts

\* The replies the handler is run on: one text of each kind.
HandlerTexts ==
  { TextFlatObject,
    Fence \o JsonTag \o <<"\n">> \o TextFlatObject \o <<"\n">> \o Fence,
    Fence \o JsonTag \o <<"\n">> \o TextArray \o <<"\n">> \o Fence,
    <<"o", "o", "p", "s">>,
    Fence \o JsonTag \o <<"\n", "{", "b", "a", "d", "}", "\n">> \o Fence }

(* ------------------------ cross-question rule ------------------------- *)
\* q && typeof q === 'string' && q.trim().length > 0
UsableQuestion(q) == q.t = "str" /\ q.s # <<>> /\ Len(trim(q.s)) > 0

FilterUsable(a) == SelectSeq(a, UsableQuestion)

FallbackQuestions(topicTitle) ==
  LET t == toLowerCase(topicTitle) IN
  << JStr(FallbackPre1 \o t \o FallbackPost1),
     JStr(FallbackPre2 \o t \o FallbackPost2),
     JStr(FallbackPre3 \o t \o FallbackPost3),
     JStr(FallbackPre4 \o t \o FallbackPost4) >>

\* generate-topic-content, create-custom-topic, part_001 generateTopicContent.
processedCrossQuestions(cross_questions, topicTitle) ==
  LET filtered == IF cross_questions.t = "arr"
                  THEN FilterUsable(cross_questions.a) ELSE <<>>
  IN IF Len(filtered) = 0 THEN JArr(FallbackQuestions(topicTitle))
     ELSE JArr(filtered)

\* part_001, handleAutoGenerateTopicsAndContent: four fixed questions replace a
\* missing, non-array or empty list; any other array is stored as it came.
Generic1 == <<"C","a","n"," ","y","o","u"," ","p","r","o","v","i","d","e"," ","m","o","r","e"," ","d","e","t","a","i","l","s"," ","a","b","o","u","t"," ","t","h","i","s","?">>
Generic2 == <<"H","o","w"," ","w","o","u","l","d"," ","y","o","u"," ","h","a","n","d","l","e"," ","c","h","a","l","l","e","n","g","e","s"," ","i","n"," ","t","h","i","s"," ","a","r","e","a","?">>
Generic3 == <<"W","h","a","t"," ","w","o","u","l","d"," ","b","e"," ","y","o","u","r"," ","a","p","p","r","o","a","c","h"," ","i","f"," ","r","e","q","u","i","r","e","m","e","n","t","s"," ","c","h","a","n","g","e","d","?">>
Generic4 == <<"H","o","w"," ","d","o"," ","y","o","u"," ","e","n","s","u","r","e"," ","q","u","a","l","i","t","y"," ","i","n"," ","t","h","i","s"," ","p","r","o","c","e","s","s","?">>
GenericQuestions == <<JStr(Generic1), JStr(Generic2), JStr(Generic3), JStr(Generic4)>>

AutoCrossQuestions(cross_questions) ==
  IF cross_questions.t # "arr" \/ Len(cross_questions.a) = 0
  THEN JArr(GenericQuestions)
  ELSE cross_questions

\* generate-content/index.ts and part_002: cross_questions || []
OrEmptyList(cross_questions) ==
  IF cross_questions.t = "undef" THEN JArr(<<>>) ELSE cross_questions

\* JSON.parse alone, without the fenced-block fallback.
JSONparse(form) == form \in {"json", "none"}

(* ------------------------------ the store ----------------------------- *)
VARIABLES
  topics,      \* rows of public.topics: [id, user_id, slug]
  versions,    \* rows of topic_content_versions in insert order; id = index
  pointers,    \* rows of topic_current_version: [topic_id, version_id, user_id]
  req          \* the requests: inputs, position and locals of each handler run

vars == <<topics, versions, pointers, req>>

TopicIds == {t.id : t \in topics}
VersionIds == 1..Len(versions)
VersionsOf(topicId) == {v \in VersionIds : versions[v].topic_id = topicId}
PointersOf(topicId) == {p \in pointers : p.topic_id = topicId}

\* public.topics: UNIQUE(user_id, slug)
TopicByOwnerSlug(userId, slug) ==
  {t \in topics : t.user_id = userId /\ t.slug = slug}

\* topic_content_versions: topic_id REFERENCES topics(id)
VersionInsertAllowed(topicId) == topicId \in TopicIds

VersionRow(topicId, userId, bullets, script, cq) ==
  [topic_id |-> topicId, user_id |-> userId, bullets |-> bullets,
   script |-> script, cross_questions |-> cq]

\* A faulty variant of the insert: the newest row is written over.
ReplaceLatestVersion(rows, row) ==
  IF rows = <<>> THEN <<row>> ELSE [rows EXCEPT ![Len(rows)] = row]

\* insert into topic_content_versions: a new row, the others as they were.
InsertVersion(rows, row) == Append(rows, row)

\* A faulty variant of the returned id: the id of the row before the new one.
PreviousVersionId == Len(versions)

\* The id of the row an insert into topic_content_versions returns.
\* A faulty variant of the returned id: the id of the oldest row of the table.
OldestVersionId ==
  CHOOSE v \in 1..(Len(versions) + 1) : \A w \in 1..(Len(versions) + 1) : v <= w

NewVersionId == Len(versions) + 1

\* Faulty variants of the pointer write, used to test the pointer properties:
\* a plain insert that keeps an existing row, a write that only moves the
\* pointer forward, and a write that adds a row beside the existing one.
UpsertKeepingExisting(rows, topicId, versionId, userId) ==
  IF \E p \in rows : p.topic_id = topicId THEN rows
  ELSE rows \cup {[topic_id |-> topicId, version_id |-> versionId, user_id |-> userId]}

UpsertOnlyForward(rows, topicId, versionId, userId) ==
  IF \E p \in rows : p.topic_id = topicId /\ p.version_id > versionId THEN rows
  ELSE {p \in rows : p.topic_id # topicId}
         \cup {[topic_id |-> topicId, version_id |-> versionId, user_id |-> userId]}

UpsertBesideExisting(rows, topicId, versionId, userId) ==
  rows \cup {[topic_id |-> topicId, version_id |-> versionId, user_id |-> userId]}

\* A faulty variant: a topic that has a row loses it.
UpsertClearingExisting(rows, topicId, versionId, userId) ==
  IF \E p \in rows : p.topic_id = topicId
  THEN {p \in rows : p.topic_id # topicId}
  ELSE rows \cup {[topic_id |-> topicId, version_id |-> versionId, user_id |-> userId]}

\* .upsert on topic_current_version (PRIMARY KEY topic_id): replace the row.
UpsertPointer(rows, topicId, versionId, userId) ==
  {p \in rows : p.topic_id # topicId}
    \cup {[topic_id |-> topicId, version_id |-> versionId, user_id |-> userId]}

\* .single(): the row when exactly one row matches, otherwise no data.
Single(rows) == IF Cardinality(rows) = 1 THEN rows ELSE {}

\* .insert on topic_current_version: a second row for a topic is refused.
InsertPointer(rows, topicId, versionId, userId) ==
  IF PointersOf(topicId) # {} THEN rows
  ELSE rows \cup {[topic_id |-> topicId, version_id |-> versionId, user_id |-> userId]}

\* insert into public.topics: ids are handed out in insert order.
NewTopicId == Cardinality(topics) + 1

\* A faulty variant: a topics table without the unique constraint.
WithoutUniqueSlug(userId, slug) == TRUE

TopicInsertAllowed(userId, slug) == TopicByOwnerSlug(userId, slug) = {}

TopicRow(id, userId, slug) == [id |-> id, user_id |-> userId, slug |-> slug]

LatestVersionOf(topicId) ==
  CHOOSE v \in VersionsOf(topicId) : \A w \in VersionsOf(topicId) : w <= v

(* ------------------------------ requests ------------------------------ *)
NoResp == [http |-> 0, success |-> FALSE, error |-> "", code |-> 0,
           topicsCreated |-> -1, topics |-> <<>>]

Resp(http, success, error, code) ==
  [http |-> http, success |-> success, error |-> error, code |-> code,
   topicsCreated |-> -1, topics |-> <<>>]

IdleReq ==
  [kind |-> "idle", pc |-> "idle", user |-> "", topic |-> 0, title |-> 3,
   bullets |-> <<>>, script |-> "", cq |-> JUndef, ver |-> 0,
   upsertOk |-> FALSE, stale |-> FALSE, calls |-> 0, upstream |-> 0,
   batch |-> <<>>, proposed |-> <<>>, createdTopics |-> <<>>, inserted |-> {},
   raw |-> <<>>, parsed |-> NotParsed, had |-> FALSE, fault |-> FALSE,
   authed |-> FALSE, body |-> JUndef, invoked |-> NotParsed,
   resp |-> NoResp]

\* The store before the first request: empty, or holding one topic without
\* content (what an earlier analyze-documents run leaves for a user).
InitialTopics == { {}, {[id |-> 1, user_id |-> "u1", slug |-> SeedSlug]} }

Init ==
  /\ topics \in InitialTopics
  /\ versions = <<>>
  /\ pointers = {}
  /\ req = [r \in Reqs |-> IdleReq]

\* Stores a batch request may find: those above, and the seeded topic after
\* one or two content generations (the pointer on the newest version).
SeedVersion ==
  VersionRow(1, "u1", <<"point">>, "story", JArr(FallbackQuestions(TitlePython)))

InitBatch ==
  /\ req = [r \in Reqs |-> IdleReq]
  /\ \/ /\ topics \in InitialTopics
        /\ versions = <<>>
        /\ pointers = {}
     \/ /\ topics = {TopicRow(1, "u1", SeedSlug)}
        /\ \E n \in 1..2 :
             /\ versions = [i \in 1..n |-> SeedVersion]
             /\ pointers = UpsertPointer({}, 1, n, "u1")

\* Requests start in the order of their numbers.
CanStart(r) ==
  /\ req[r].kind = "idle"
  /\ IF r = 1 THEN TRUE ELSE req[r - 1].kind # "idle"

Set(r, rec) == req' = [req EXCEPT ![r] = rec]

\* What a bearer credential resolves to: a user, no header, an invalid token.
Credentials == Users \cup {"none", "bad"}

\* authenticateUser: the user of the bearer token, or a thrown error.
authenticateUser(cred) == IF cred \in Users THEN cred ELSE ""

AuthError(cred) == IF cred = "none" THEN "No authorization header" ELSE "Unauthorized"

\* A faulty variant of the answer: an upstream error sends the request back
\* to its model call once.
RetryOnUpstreamError(rec, resp) ==
  IF resp.code # 0 /\ rec.calls < 2 THEN [rec EXCEPT !.pc = "call"]
  ELSE [rec EXCEPT !.pc = "done", !.resp = resp, !.bullets = <<>>, !.script = "",
                   !.cq = JUndef]

\* The locals of a generation are dead once the handler has answered.
Done(rec, resp) ==
  [rec EXCEPT !.pc = "done", !.resp = resp, !.bullets = <<>>, !.script = "",
              !.cq = JUndef]

(* --------------- generate-topic-content/index.ts ---------------------- *)
GtcServe(r) ==
  /\ CanStart(r)
  /\ \E topicId \in 0..MaxTopics, title \in ClientTitles, cred \in Credentials :
       LET base == [IdleReq EXCEPT !.kind = "gtc", !.authed = (cred \in Users)]
       IN IF topicId = 0 \/ Titles[title] = <<>>
          THEN Set(r, Done(base, Resp(400, FALSE, "topicId and topicTitle are required", 0)))
          ELSE IF authenticateUser(cred) = ""
          THEN Set(r, Done(base, Resp(500, FALSE, AuthError(cred), 0)))
          ELSE Set(r, [base EXCEPT !.pc = "call", !.user = authenticateUser(cred),
                          !.topic = topicId, !.title = title])
  /\ UNCHANGED <<topics, versions, pointers>>

\* callOpenAI, parseAIResponse and the cross-question rule.
GtcCall(r) ==
  /\ req[r].kind = "gtc" /\ req[r].pc = "call"
  /\ \E m \in ContentResponses :
       LET sent == [req[r] EXCEPT !.calls = @ + 1, !.upstream = m.status]
       IN IF m.status # 200
          THEN Set(r, Done(sent, Resp(500, FALSE, "OpenAI API error", m.status)))
          ELSE IF ~parseAIResponse(m.form)
          THEN Set(r, Done(sent, Resp(500, FALSE, "Invalid response format from AI", 0)))
          ELSE Set(r, [sent EXCEPT !.pc = "insert",
                 !.bullets = ParsedKeyPoints(m), !.script = ParsedScript(m),
                 !.cq = processedCrossQuestions(ParsedCrossQuestions(m),
                                                Titles[req[r].title])])
  /\ UNCHANGED <<topics, versions, pointers>>

\* insert into topic_content_versions; the store may reject it.
GtcInsert(r) ==
  /\ req[r].kind = "gtc" /\ req[r].pc = "insert"
  /\ \E accepted \in BOOLEAN :
       IF accepted /\ VersionInsertAllowed(req[r].topic)
       THEN /\ Len(versions) < MaxVersions
            /\ versions' = InsertVersion(versions, VersionRow(req[r].topic, req[r].user,
                              req[r].bullets, req[r].script, req[r].cq))
            /\ Set(r, [req[r] EXCEPT !.pc = "upsert", !.ver = NewVersionId,
                         !.bullets = <<>>, !.script = "", !.cq = JUndef])
       ELSE /\ versions' = versions
            /\ Set(r, Done(req[r], Resp(500, FALSE, "insertError", 0)))
  /\ UNCHANGED <<topics, pointers>>

\* upsert of topic_current_version; its result is not looked at.
GtcUpsert(r) ==
  /\ req[r].kind = "gtc" /\ req[r].pc = "upsert"
  /\ \E accepted \in BOOLEAN :
       /\ pointers' = IF accepted
                      THEN UpsertPointer(pointers, req[r].topic, req[r].ver, req[r].user)
                      ELSE pointers
       /\ Set(r, Done([req[r] EXCEPT !.upsertOk = accepted,
                          !.stale = (LatestVersionOf(req[r].topic) # req[r].ver)],
                      Resp(200, TRUE, "", 0)))
  /\ UNCHANGED <<topics, versions>>

(* ------------------ create-custom-topic/index.ts ---------------------- *)
\* serve: the body check, authenticateUser and the read of the sort order.
CctServe(r) ==
  /\ CanStart(r)
  /\ \E title \in ClientTitles, category \in BOOLEAN, cred \in Credentials :
       LET base == [IdleReq EXCEPT !.kind = "cct", !.authed = (cred \in Users)]
       IN IF Titles[title] = <<>> \/ ~category
          THEN Set(r, Done(base, Resp(400, FALSE, "Title and category are required", 0)))
          ELSE IF authenticateUser(cred) = ""
          THEN Set(r, Done(base, Resp(500, FALSE, AuthError(cred), 0)))
          ELSE Set(r, [base EXCEPT !.pc = "topic", !.user = authenticateUser(cred),
                          !.title = title])
  /\ UNCHANGED <<topics, versions, pointers>>

\* insert into topics with the slug of the title.
CctInsertTopic(r) ==
  /\ req[r].kind = "cct" /\ req[r].pc = "topic"
  /\ \E accepted \in BOOLEAN :
       LET slug == Slug(Titles[req[r].title]) IN
       IF accepted /\ TopicInsertAllowed(req[r].user, slug)
       THEN /\ Cardinality(topics) < MaxTopics
            /\ topics' = topics \cup {TopicRow(NewTopicId, req[r].user, slug)}
            /\ Set(r, [req[r] EXCEPT !.pc = "call", !.topic = NewTopicId])
       ELSE /\ topics' = topics
            /\ Set(r, Done(req[r], Resp(500, FALSE, "topicError", 0)))
  /\ UNCHANGED <<versions, pointers>>

CctCall(r) ==
  /\ req[r].kind = "cct" /\ req[r].pc = "call"
  /\ \E m \in ContentResponses :
       LET sent == [req[r] EXCEPT !.calls = @ + 1, !.upstream = m.status]
       IN IF m.status # 200
          THEN Set(r, Done(sent, Resp(500, FALSE, "OpenAI API error", m.status)))
          ELSE IF ~parseAIResponse(m.form)
          THEN Set(r, Done(sent, Resp(500, FALSE, "Invalid response format from AI", 0)))
          ELSE Set(r, [sent EXCEPT !.pc = "insert",
                 !.bullets = ParsedKeyPoints(m), !.script = ParsedScript(m),
                 !.cq = processedCrossQuestions(ParsedCrossQuestions(m),
                                                Titles[req[r].title])])
  /\ UNCHANGED <<topics, versions, pointers>>

CctInsert(r) ==
  /\ req[r].kind = "cct" /\ req[r].pc = "insert"
  /\ \E accepted \in BOOLEAN :
       IF accepted /\ VersionInsertAllowed(req[r].topic)
       THEN /\ Len(versions) < MaxVersions
            /\ versions' = InsertVersion(versions, VersionRow(req[r].topic, req[r].user,
                              req[r].bullets, req[r].script, req[r].cq))
            /\ Set(r, [req[r] EXCEPT !.pc = "upsert", !.ver = NewVersionId,
                         !.bullets = <<>>, !.script = "", !.cq = JUndef])
       ELSE /\ versions' = versions
            /\ Set(r, Done(req[r], Resp(500, FALSE, "contentError", 0)))
  /\ UNCHANGED <<topics, pointers>>

CctUpsert(r) ==
  /\ req[r].kind = "cct" /\ req[r].pc = "upsert"
  /\ \E accepted \in BOOLEAN :
       /\ pointers' = IF accepted
                      THEN UpsertPointer(pointers, req[r].topic, req[r].ver, req[r].user)
                      ELSE pointers
       /\ Set(r, Done([req[r] EXCEPT !.upsertOk = accepted,
                          !.stale = (LatestVersionOf(req[r].topic) # req[r].ver)],
                      Resp(200, TRUE, "", 0)))
  /\ UNCHANGED <<topics, versions>>

(* ---------- part_001: serve (default branch), generateTopicContent ----- *)
\* serve with no action: the header check at entry, the parameter check and
\* getUser of the default branch.
Gc1ServeDirect(r) ==
  /\ CanStart(r)
  /\ \E topicId \in 0..MaxTopics, prompt \in BOOLEAN, cred \in Credentials :
       LET base == [IdleReq EXCEPT !.kind = "gc1_direct", !.authed = (cred \in Users)]
       IN IF cred = "bad"
          THEN Set(r, Done(base, Resp(401, FALSE, "Unauthorized", 0)))
          ELSE IF topicId = 0 \/ ~prompt
          THEN Set(r, Done(base, Resp(400, FALSE, "Missing required parameters", 0)))
          ELSE IF authenticateUser(cred) = ""
          THEN Set(r, Done(base, Resp(401, FALSE, "Unauthorized", 0)))
          ELSE Set(r, [base EXCEPT !.pc = "call", !.user = authenticateUser(cred),
                          !.topic = topicId, !.title = CustomTitle])
  /\ UNCHANGED <<topics, versions, pointers>>

\* The answer of a batch handler: topicsCreated is createdTopics.length.
BatchResp(rec) ==
  [http |-> 200, success |-> TRUE, error |-> "", code |-> 0,
   topicsCreated |-> Len(rec.createdTopics), topics |-> rec.createdTopics]

\* A faulty variant of the loop step: it starts over on the same topic.
RepeatTopic(rec, firstPc) ==
  IF Len(rec.batch) <= 1
  THEN Done([rec EXCEPT !.batch = <<>>], BatchResp(rec))
  ELSE [rec EXCEPT !.pc = firstPc, !.topic = 0, !.ver = 0,
                   !.bullets = <<>>, !.script = "", !.cq = JUndef]

\* A faulty variant of the loop: it ends at the first topic it leaves.
StopAtTopic(rec, firstPc) == Done([rec EXCEPT !.batch = <<>>], BatchResp(rec))

\* The for loop moves to the next proposed topic, or the handler answers.
NextTopic(rec, firstPc) ==
  IF Len(rec.batch) <= 1
  THEN Done([rec EXCEPT !.batch = <<>>], BatchResp(rec))
  ELSE [rec EXCEPT !.pc = firstPc, !.batch = Tail(@), !.topic = 0, !.ver = 0,
                   !.bullets = <<>>, !.script = "", !.cq = JUndef]

\* The loop starts on the parsed topics, or answers at once for none.
StartLoop(rec, list, firstPc) ==
  IF list = <<>> THEN Done(rec, BatchResp(rec))
  ELSE [rec EXCEPT !.pc = firstPc, !.batch = list, !.proposed = list]

\* What the caller of part_001's generateTopicContent does once it returns
\* (it returns nothing, whether or not it wrote).
Gc1Return(rec) ==
  IF rec.kind \in {"gc1_direct", "gc1_single"} THEN Done(rec, Resp(200, TRUE, "", 0))
  ELSE NextTopic(rec, "lookup")

\* generateTopicContent: fetch, the status check, JSON.parse with the fenced
\* fallback and the cross-question rule; a failure returns silently.
Gc1Call(r) ==
  /\ req[r].kind \in {"gc1_direct", "gc1_single", "gc1_tabs"} /\ req[r].pc = "call"
  /\ \E m \in ContentResponses :
       LET sent == [req[r] EXCEPT !.calls = @ + 1, !.upstream = m.status]
       IN IF m.status # 200 \/ ~parseAIResponse(m.form)
          THEN Set(r, Gc1Return(sent))
          ELSE Set(r, [sent EXCEPT !.pc = "insert",
                 !.bullets = ParsedKeyPoints(m), !.script = ParsedScript(m),
                 !.cq = processedCrossQuestions(ParsedCrossQuestions(m),
                                                Titles[req[r].title])])
  /\ UNCHANGED <<topics, versions, pointers>>

Gc1Insert(r) ==
  /\ req[r].kind \in {"gc1_direct", "gc1_single", "gc1_tabs"} /\ req[r].pc = "insert"
  /\ \E accepted \in BOOLEAN :
       IF accepted /\ VersionInsertAllowed(req[r].topic)
       THEN /\ Len(versions) < MaxVersions
            /\ versions' = InsertVersion(versions, VersionRow(req[r].topic, req[r].user,
                              req[r].bullets, req[r].script, req[r].cq))
            /\ Set(r, [req[r] EXCEPT !.pc = "upsert", !.ver = NewVersionId,
                         !.bullets = <<>>, !.script = "", !.cq = JUndef])
       ELSE /\ versions' = versions
            /\ Set(r, Gc1Return(req[r]))
  /\ UNCHANGED <<topics, pointers>>

Gc1Upsert(r) ==
  /\ req[r].kind \in {"gc1_direct", "gc1_single", "gc1_tabs"} /\ req[r].pc = "upsert"
  /\ \E accepted \in BOOLEAN :
       /\ pointers' = IF accepted
                      THEN UpsertPointer(pointers, req[r].topic, req[r].ver, req[r].user)
                      ELSE pointers
       /\ Set(r, Gc1Return([req[r] EXCEPT !.upsertOk = accepted,
                          !.stale = (LatestVersionOf(req[r].topic) # req[r].ver)]))
  /\ UNCHANGED <<topics, versions>>

(* ------------------- part_001: handleGenerateTabs --------------------- *)
\* serve, action generate_tabs: a present header must hold a valid token, an
\* absent one passes; the owner is the userId of the body.
Gc1TabsServe(r) ==
  /\ CanStart(r)
  /\ \E userId \in Users, cred \in Credentials :
       LET base == [IdleReq EXCEPT !.kind = "gc1_tabs", !.authed = (cred \in Users)]
       IN IF cred = "bad"
          THEN Set(r, Done(base, Resp(401, FALSE, "Unauthorized", 0)))
          ELSE Set(r, [base EXCEPT !.pc = "propose", !.user = userId])
  /\ UNCHANGED <<topics, versions, pointers>>

\* The topics prompt: fetch, the status check, JSON.parse, the topics check.
Gc1TabsProposeUpTo(r, maxLen) ==
  /\ req[r].kind = "gc1_tabs" /\ req[r].pc = "propose"
  /\ \E m \in TopicsResponses(maxLen) :
       LET sent == [req[r] EXCEPT !.calls = @ + 1, !.upstream = m.status]
       IN IF m.status # 200
          THEN Set(r, Done(sent, Resp(500, FALSE, "OpenAI API error", m.status)))
          ELSE IF m.form = "garbage"
          THEN Set(r, Done(sent, Resp(500, FALSE, "Invalid response format from AI for tab generation", 0)))
          ELSE IF m.form = "none"
          THEN Set(r, Done(sent, Resp(500, FALSE, "Invalid topics format from AI", 0)))
          ELSE Set(r, StartLoop(sent, m.list, "lookup"))
  /\ UNCHANGED <<topics, versions, pointers>>

Gc1TabsPropose(r) == Gc1TabsProposeUpTo(r, MaxTabs)

\* select id, title from topics where user_id and slug match, .single()
Gc1TabsLookup(r) ==
  /\ req[r].kind = "gc1_tabs" /\ req[r].pc = "lookup"
  /\ LET slug == Proposals[Head(req[r].batch)].slug
         existingTopic == Single(TopicByOwnerSlug(req[r].user, slug))
     IN IF existingTopic # {}
        THEN Set(r, [req[r] EXCEPT !.pc = "check",
               !.topic = (CHOOSE t \in existingTopic : TRUE).id,
               !.createdTopics = Append(@, (CHOOSE t \in existingTopic : TRUE).id)])
        ELSE Set(r, [req[r] EXCEPT !.pc = "topic"])
  /\ UNCHANGED <<topics, versions, pointers>>

\* insert into topics; on an error the loop continues with the next topic.
Gc1TabsInsertTopic(r) ==
  /\ req[r].kind = "gc1_tabs" /\ req[r].pc = "topic"
  /\ \E accepted \in BOOLEAN :
       LET slug == Proposals[Head(req[r].batch)].slug IN
       IF accepted /\ TopicInsertAllowed(req[r].user, slug)
       THEN /\ Cardinality(topics) < MaxTopics
            /\ topics' = topics \cup {TopicRow(NewTopicId, req[r].user, slug)}
            /\ Set(r, [req[r] EXCEPT !.pc = "check", !.topic = NewTopicId,
                         !.createdTopics = Append(@, NewTopicId),
                         !.inserted = @ \cup {NewTopicId}])
       ELSE /\ topics' = topics
            /\ Set(r, NextTopic(req[r], "lookup"))
  /\ UNCHANGED <<versions, pointers>>

\* select id from topic_content_versions where topic_id and user_id match,
\* .single(); content is generated when it yields no data.
Gc1TabsCheck(r) ==
  /\ req[r].kind = "gc1_tabs" /\ req[r].pc = "check"
  /\ LET existingContent ==
           Single({v \in VersionsOf(req[r].topic) : versions[v].user_id = req[r].user})
     IN IF existingContent = {}
        THEN Set(r, [req[r] EXCEPT !.pc = "call",
                        !.title = Proposals[Head(req[r].batch)].title])
        ELSE Set(r, NextTopic(req[r], "lookup"))
  /\ UNCHANGED <<topics, versions, pointers>>

(* ----------- part_001: handleAutoGenerateTopicsAndContent ------------- *)
\* serve, action auto_generate_topics_and_content, then auth.getUser() called
\* without a token: the client resolves it to a user or to none.
Gc1AutoServe(r) ==
  /\ CanStart(r)
  /\ \E cred \in Credentials, user \in Users \cup {""} :
       LET base == [IdleReq EXCEPT !.kind = "gc1_auto", !.authed = (cred \in Users)]
       IN IF cred = "bad"
          THEN Set(r, Done(base, Resp(401, FALSE, "Unauthorized", 0)))
          ELSE IF user = ""
          THEN Set(r, Done(base, Resp(500, FALSE, "User not authenticated", 0)))
          ELSE Set(r, [base EXCEPT !.pc = "propose", !.user = user])
  /\ UNCHANGED <<topics, versions, pointers>>

\* fetch, the status check (the message carries no status), JSON.parse, the
\* topics check.
Gc1AutoPropose(r) ==
  /\ req[r].kind = "gc1_auto" /\ req[r].pc = "propose"
  /\ \E m \in TopicsResponses(MaxTabs) :
       LET sent == [req[r] EXCEPT !.calls = @ + 1, !.upstream = m.status]
       IN IF m.status # 200
          THEN Set(r, Done(sent, Resp(500, FALSE, "OpenAI API error", 0)))
          ELSE IF m.form = "garbage"
          THEN Set(r, Done(sent, Resp(500, FALSE, "Failed to parse AI response", 0)))
          ELSE IF m.form = "none"
          THEN Set(r, Done(sent, Resp(500, FALSE, "Invalid response format from AI", 0)))
          ELSE Set(r, StartLoop(sent, m.list, "topic"))
  /\ UNCHANGED <<topics, versions, pointers>>

\* The cross_questions default of the proposed topic (its fields are read
\* when the loop reaches it), then insert into topics.
Gc1AutoInsertTopic(r) ==
  /\ req[r].kind = "gc1_auto" /\ req[r].pc = "topic"
  /\ \E accepted \in BOOLEAN, cross_questions \in CqCandidates :
       LET slug == Proposals[Head(req[r].batch)].slug IN
       IF accepted /\ TopicInsertAllowed(req[r].user, slug)
       THEN /\ Cardinality(topics) < MaxTopics
            /\ topics' = topics \cup {TopicRow(NewTopicId, req[r].user, slug)}
            /\ Set(r, [req[r] EXCEPT !.pc = "insert", !.topic = NewTopicId,
                         !.inserted = @ \cup {NewTopicId},
                         !.bullets = <<"point">>, !.script = "story",
                         !.cq = AutoCrossQuestions(cross_questions)])
       ELSE /\ topics' = topics
            /\ Set(r, NextTopic(req[r], "topic"))
  /\ UNCHANGED <<versions, pointers>>

Gc1AutoInsertVersion(r) ==
  /\ req[r].kind = "gc1_auto" /\ req[r].pc = "insert"
  /\ \E accepted \in BOOLEAN :
       IF accepted /\ VersionInsertAllowed(req[r].topic)
       THEN /\ Len(versions) < MaxVersions
            /\ versions' = InsertVersion(versions, VersionRow(req[r].topic, req[r].user,
                              req[r].bullets, req[r].script, OrEmptyList(req[r].cq)))
            /\ Set(r, [req[r] EXCEPT !.pc = "pointer", !.ver = NewVersionId,
                         !.bullets = <<>>, !.script = "", !.cq = JUndef])
       ELSE /\ versions' = versions
            /\ Set(r, NextTopic(req[r], "topic"))
  /\ UNCHANGED <<topics, pointers>>

\* .insert into topic_current_version (its result is not read), then push.
Gc1AutoInsertPointer(r) ==
  /\ req[r].kind = "gc1_auto" /\ req[r].pc = "pointer"
  /\ \E accepted \in BOOLEAN :
       /\ pointers' = IF accepted
                      THEN InsertPointer(pointers, req[r].topic, req[r].ver, req[r].user)
                      ELSE pointers
       /\ Set(r, NextTopic([req[r] EXCEPT
                      !.createdTopics = Append(@, req[r].topic),
                      !.upsertOk = accepted /\ PointersOf(req[r].topic) = {},
                      !.stale = (LatestVersionOf(req[r].topic) # req[r].ver)],
                    "topic"))
  /\ UNCHANGED <<topics, versions>>

(* ------- _shared/utils.ts (analyze-documents): generateTopicsFromDocuments *)
AdServe(r) ==
  /\ CanStart(r)
  /\ \E content \in BOOLEAN, cred \in Credentials :
       LET base == [IdleReq EXCEPT !.kind = "ad", !.authed = (cred \in Users)]
       IN IF ~content
          THEN Set(r, Done(base, Resp(400, FALSE, "Document content is required", 0)))
          ELSE IF authenticateUser(cred) = ""
          THEN Set(r, Done(base, Resp(500, FALSE, AuthError(cred), 0)))
          ELSE Set(r, [base EXCEPT !.pc = "propose", !.user = authenticateUser(cred)])
  /\ UNCHANGED <<topics, versions, pointers>>

\* callOpenAI, parseAIResponse and the topics check.
AdPropose(r) ==
  /\ req[r].kind = "ad" /\ req[r].pc = "propose"
  /\ \E m \in TopicsResponses(MaxBatch) :
       LET sent == [req[r] EXCEPT !.calls = @ + 1, !.upstream = m.status]
       IN IF m.status # 200
          THEN Set(r, Done(sent, Resp(500, FALSE, "OpenAI API error", m.status)))
          ELSE IF m.form = "garbage"
          THEN Set(r, Done(sent, Resp(500, FALSE, "Invalid response format from AI", 0)))
          ELSE IF m.form = "none"
          THEN Set(r, Done(sent, Resp(500, FALSE, "Invalid topics format from AI", 0)))
          ELSE Set(r, StartLoop(sent, m.list, "lookup"))
  /\ UNCHANGED <<topics, versions, pointers>>

AdLookup(r) ==
  /\ req[r].kind = "ad" /\ req[r].pc = "lookup"
  /\ LET slug == Proposals[Head(req[r].batch)].slug
         existingTopic == Single(TopicByOwnerSlug(req[r].user, slug))
     IN IF existingTopic # {}
        THEN Set(r, NextTopic([req[r] EXCEPT
               !.createdTopics = Append(@, (CHOOSE t \in existingTopic : TRUE).id)],
               "lookup"))
        ELSE Set(r, [req[r] EXCEPT !.pc = "topic"])
  /\ UNCHANGED <<topics, versions, pointers>>

AdInsertTopic(r) ==
  /\ req[r].kind = "ad" /\ req[r].pc = "topic"
  /\ \E accepted \in BOOLEAN :
       LET slug == Proposals[Head(req[r].batch)].slug IN
       IF accepted /\ TopicInsertAllowed(req[r].user, slug)
       THEN /\ Cardinality(topics) < MaxTopics
            /\ topics' = topics \cup {TopicRow(NewTopicId, req[r].user, slug)}
            /\ Set(r, NextTopic([req[r] EXCEPT
                         !.createdTopics = Append(@, NewTopicId),
                         !.inserted = @ \cup {NewTopicId}], "lookup"))
       ELSE /\ topics' = topics
            /\ Set(r, NextTopic(req[r], "lookup"))
  /\ UNCHANGED <<versions, pointers>>

(* ------- generate-content/index.ts: serve, topic content generation ---- *)
\* serve without an action: the header check and the parameter check; the
\* token is looked at only after the model has answered.
Gc0ServeDirect(r) ==
  /\ CanStart(r)
  /\ \E topicId \in 0..MaxTopics, title \in ClientTitles, sourceNotes \in BOOLEAN,
        cred \in Credentials :
       LET base == [IdleReq EXCEPT !.kind = "gc0_direct", !.authed = (cred \in Users)]
       IN IF cred = "none"
          THEN Set(r, Done(base, Resp(500, FALSE, "No authorization header", 0)))
          ELSE IF topicId = 0 \/ ~sourceNotes \/ Titles[title] = <<>>
          THEN Set(r, Done(base, Resp(500, FALSE, "Missing required parameters for topic content generation", 0)))
          ELSE Set(r, [base EXCEPT !.pc = "call", !.user = cred,
                          !.topic = topicId, !.title = title])
  /\ UNCHANGED <<topics, versions, pointers>>

\* fetch, the status check, JSON.parse, then getUser of the token.
Gc0DirectCall(r) ==
  /\ req[r].kind = "gc0_direct" /\ req[r].pc = "call"
  /\ \E m \in ContentResponses :
       LET sent == [req[r] EXCEPT !.calls = @ + 1, !.upstream = m.status]
       IN IF m.status # 200
          THEN Set(r, Done(sent, Resp(500, FALSE, "OpenAI API error", m.status)))
          ELSE IF ~JSONparse(m.form)
          THEN Set(r, Done(sent, Resp(500, FALSE, "Invalid response format from AI", 0)))
          ELSE IF authenticateUser(req[r].user) = ""
          THEN Set(r, Done(sent, Resp(500, FALSE, "Invalid auth token", 0)))
          ELSE Set(r, [sent EXCEPT !.pc = "insert",
                 !.bullets = ParsedKeyPoints(m), !.script = ParsedScript(m),
                 !.cq = OrEmptyList(ParsedCrossQuestions(m))])
  /\ UNCHANGED <<topics, versions, pointers>>

Gc0DirectInsert(r) ==
  /\ req[r].kind = "gc0_direct" /\ req[r].pc = "insert"
  /\ \E accepted \in BOOLEAN :
       IF accepted /\ VersionInsertAllowed(req[r].topic)
       THEN /\ Len(versions) < MaxVersions
            /\ versions' = InsertVersion(versions, VersionRow(req[r].topic, req[r].user,
                              req[r].bullets, req[r].script, req[r].cq))
            /\ Set(r, [req[r] EXCEPT !.pc = "upsert", !.ver = NewVersionId,
                         !.bullets = <<>>, !.script = "", !.cq = JUndef])
       ELSE /\ versions' = versions
            /\ Set(r, Done(req[r], Resp(500, FALSE, "Failed to save content to database", 0)))
  /\ UNCHANGED <<topics, pointers>>

\* the upsert error is logged and the request still succeeds.
Gc0DirectUpsert(r) ==
  /\ req[r].kind = "gc0_direct" /\ req[r].pc = "upsert"
  /\ \E accepted \in BOOLEAN :
       /\ pointers' = IF accepted
                      THEN UpsertPointer(pointers, req[r].topic, req[r].ver, req[r].user)
                      ELSE pointers
       /\ Set(r, Done([req[r] EXCEPT !.upsertOk = accepted,
                          !.stale = (LatestVersionOf(req[r].topic) # req[r].ver)],
                      Resp(200, TRUE, "", 0)))
  /\ UNCHANGED <<topics, versions>>

Next ==
  \E r \in Reqs :
    \/ GtcServe(r)
    \/ GtcCall(r)
    \/ GtcInsert(r)
    \/ GtcUpsert(r)
    \/ CctServe(r)
    \/ CctInsertTopic(r)
    \/ CctCall(r)
    \/ CctInsert(r)
    \/ CctUpsert(r)
    \/ Gc1ServeDirect(r)
    \/ Gc1Call(r)
    \/ Gc1Insert(r)
    \/ Gc1Upsert(r)
    \/ Gc0ServeDirect(r)
    \/ Gc0DirectCall(r)
    \/ Gc0DirectInsert(r)
    \/ Gc0DirectUpsert(r)
    \/ Gc1AutoServe(r)
    \/ Gc1AutoPropose(r)
    \/ Gc1AutoInsertTopic(r)
    \/ Gc1AutoInsertVersion(r)
    \/ Gc1AutoInsertPointer(r)

(* ------------------- the prompt builder on its inputs ------------------ *)
PromptReq(kind, sourceNotes, sourceContent, guidance) ==
  [kind |-> kind, pc |-> "done", sourceNotes |-> sourceNotes,
   sourceContent |-> sourceContent, guidance |-> guidance]

\* generate-topic-content: serve hands sourceNotes || default to
\* generateTopicContent, which builds the user prompt.
GtcPrompt(r) ==
  /\ CanStart(r)
  /\ \E sourceNotes \in Sources :
       Set(r, PromptReq("gtc_prompt", sourceNotes, GtcSourceContent(sourceNotes),
                        ContentGuidance(GtcSourceContent(sourceNotes))))
  /\ UNCHANGED <<topics, versions, pointers>>

\* part_001: generateTopicContent on the text its caller passes.
Gc1Prompt(r) ==
  /\ CanStart(r)
  /\ \E sourceContent \in Sources :
       Set(r, PromptReq("gc1_prompt", sourceContent, sourceContent,
                        ContentGuidance(sourceContent)))
  /\ UNCHANGED <<topics, versions, pointers>>

\* generate-content/index.ts: generateTopicContent on the text it is passed.
Gc0Prompt(r) ==
  /\ CanStart(r)
  /\ \E sourceContent \in Sources :
       Set(r, PromptReq("gc0_prompt", sourceContent, sourceContent,
                        ContentGuidance0(sourceContent)))
  /\ UNCHANGED <<topics, versions, pointers>>

NextPrompt ==
  \E r \in Reqs :
    \/ GtcPrompt(r)
    \/ Gc1Prompt(r)
    \/ Gc0Prompt(r)

SpecPrompt == Init /\ [][NextPrompt]_vars

NextBatch ==
  \E r \in Reqs :
    \/ Gc1Call(r)
    \/ Gc1Insert(r)
    \/ Gc1Upsert(r)
    \/ Gc1TabsServe(r)
    \/ Gc1TabsPropose(r)
    \/ Gc1TabsLookup(r)
    \/ Gc1TabsInsertTopic(r)
    \/ Gc1TabsCheck(r)
    \/ AdServe(r)
    \/ AdPropose(r)
    \/ AdLookup(r)
    \/ AdInsertTopic(r)

SpecBatch == InitBatch /\ [][NextBatch]_vars

(* ------ generate-content/index.ts: handleAutoGenerateTopicsAndContent -- *)
\* serve, action generate_default_tabs: a header must be present; the rows
\* are written for the userId of the body.
Gc0AutoServe(r) ==
  /\ CanStart(r)
  /\ \E userId \in Users, cred \in Credentials :
       LET base == [IdleReq EXCEPT !.kind = "gc0_auto", !.authed = (cred \in Users)]
       IN IF cred = "none"
          THEN Set(r, Done(base, Resp(500, FALSE, "No authorization header", 0)))
          ELSE Set(r, [base EXCEPT !.pc = "propose", !.user = userId])
  /\ UNCHANGED <<topics, versions, pointers>>

\* fetch, the status check, JSON.parse, the topics check.
Gc0AutoPropose(r) ==
  /\ req[r].kind = "gc0_auto" /\ req[r].pc = "propose"
  /\ \E m \in TopicsResponses(MaxLoop) :
       LET sent == [req[r] EXCEPT !.calls = @ + 1, !.upstream = m.status]
       IN IF m.status # 200
          THEN Set(r, Done(sent, Resp(500, FALSE, "OpenAI API error", m.status)))
          ELSE IF m.form = "garbage"
          THEN Set(r, Done(sent, Resp(500, FALSE, "Invalid response format from AI", 0)))
          ELSE IF m.form = "none"
          THEN Set(r, Done(sent, Resp(500, FALSE, "Invalid topics format from AI", 0)))
          ELSE Set(r, StartLoop(sent, m.list, "topic"))
  /\ UNCHANGED <<topics, versions, pointers>>

\* insert into topics; on an error the loop continues with the next topic.
Gc0AutoInsertTopic(r) ==
  /\ req[r].kind = "gc0_auto" /\ req[r].pc = "topic"
  /\ \E accepted \in BOOLEAN, cross_questions \in CqCandidates :
       LET slug == Proposals[Head(req[r].batch)].slug IN
       IF accepted /\ TopicInsertAllowed(req[r].user, slug)
       THEN /\ Cardinality(topics) < MaxTopics
            /\ topics' = topics \cup {TopicRow(NewTopicId, req[r].user, slug)}
            /\ Set(r, [req[r] EXCEPT !.pc = "insert", !.topic = NewTopicId,
                         !.inserted = @ \cup {NewTopicId},
                         !.bullets = <<"point">>, !.script = "story",
                         !.cq = OrEmptyList(cross_questions)])
       ELSE /\ topics' = topics
            /\ Set(r, NextTopic(req[r], "topic"))
  /\ UNCHANGED <<versions, pointers>>

\* insert into topic_content_versions; on an error the loop continues.
Gc0AutoInsertVersion(r) ==
  /\ req[r].kind = "gc0_auto" /\ req[r].pc = "insert"
  /\ \E accepted \in BOOLEAN :
       IF accepted /\ VersionInsertAllowed(req[r].topic)
       THEN /\ Len(versions) < MaxVersions
            /\ versions' = InsertVersion(versions, VersionRow(req[r].topic, req[r].user,
                              req[r].bullets, req[r].script, req[r].cq))
            /\ Set(r, [req[r] EXCEPT !.pc = "upsert", !.ver = NewVersionId,
                         !.bullets = <<>>, !.script = "", !.cq = JUndef])
       ELSE /\ versions' = versions
            /\ Set(r, NextTopic(req[r], "topic"))
  /\ UNCHANGED <<topics, pointers>>

\* upsert of topic_current_version (an error is logged), then push.
Gc0AutoUpsert(r) ==
  /\ req[r].kind = "gc0_auto" /\ req[r].pc = "upsert"
  /\ \E accepted \in BOOLEAN :
       /\ pointers' = IF accepted
                      THEN UpsertPointer(pointers, req[r].topic, req[r].ver, req[r].user)
                      ELSE pointers
       /\ Set(r, NextTopic([req[r] EXCEPT
                      !.createdTopics = Append(@, req[r].topic),
                      !.upsertOk = accepted,
                      !.stale = (LatestVersionOf(req[r].topic) # req[r].ver)],
                    "topic"))
  /\ UNCHANGED <<topics, versions>>

(* ------------------ one batch run over several topics ------------------ *)
\* The batch runs alone on the store.
LoopReqs == {1}

NextLoop ==
  \E r \in LoopReqs :
    \/ Gc1TabsServe(r)
    \/ Gc1TabsProposeUpTo(r, MaxLoop)
    \/ Gc1TabsLookup(r)
    \/ Gc1TabsInsertTopic(r)
    \/ Gc1TabsCheck(r)
    \/ Gc1Call(r)
    \/ Gc1Insert(r)
    \/ Gc1Upsert(r)
    \/ Gc0AutoServe(r)
    \/ Gc0AutoPropose(r)
    \/ Gc0AutoInsertTopic(r)
    \/ Gc0AutoInsertVersion(r)
    \/ Gc0AutoUpsert(r)

SpecLoop == Init /\ [][NextLoop]_vars

(* ------- part_001: serve, action generate_single_topic_content -------- *)
\* req.json(): the parsed body on the first read; the body of a request is a
\* stream, and a read of a used body is rejected with a TypeError.
ReadBody(bodyUsed) ==
  [value |-> IF bodyUsed THEN "TypeError" ELSE "json", bodyUsed |-> TRUE]

\* serve reads the body at its entry and the branch of this action reads it
\* again; then the required fields, the user of the token, the generation.
Gc1SingleServe(r) ==
  /\ CanStart(r)
  /\ \E topicId \in 0..MaxTopics, title \in ClientTitles, cred \in Credentials :
       LET base == [IdleReq EXCEPT !.kind = "gc1_single", !.authed = (cred \in Users),
                                   !.topic = topicId, !.title = title]
           entry == ReadBody(FALSE)
           branch == ReadBody(entry.bodyUsed)
       IN IF cred = "bad"
          THEN Set(r, Done(base, Resp(401, FALSE, "Unauthorized", 0)))
          ELSE IF branch.value = "TypeError"
          THEN Set(r, Done(base, Resp(500, FALSE, "Body already consumed", 0)))
          ELSE IF topicId = 0 \/ Titles[title] = <<>>
          THEN Set(r, Done(base, Resp(500, FALSE, "topicId and topicTitle are required", 0)))
          ELSE IF authenticateUser(cred) = ""
          THEN Set(r, Done(base, Resp(500, FALSE, "Unauthorized", 0)))
          ELSE Set(r, [base EXCEPT !.pc = "call", !.user = authenticateUser(cred)])
  /\ UNCHANGED <<topics, versions, pointers>>

NextSingle ==
  \E r \in Reqs :
    \/ Gc1SingleServe(r)
    \/ Gc1ServeDirect(r)
    \/ Gc1Call(r)
    \/ Gc1Insert(r)
    \/ Gc1Upsert(r)

SpecSingle == Init /\ [][NextSingle]_vars

(* ------------- the parser on the text of a model reply ---------------- *)
\* generate-topic-content: callOpenAI answers with a text (never undefined:
\* the wrapper substitutes '{}'), parseAIResponse runs on it.  The texts of
\* RawTexts hold no key_points, script or cross_questions member, so the
\* three destructured fields are undefined.
GtcTextCall(r) ==
  /\ req[r].kind = "gtc" /\ req[r].pc = "call"
  /\ \E rawContent \in HandlerTexts :
       LET sent == [req[r] EXCEPT !.calls = @ + 1, !.upstream = 200,
                                  !.raw = rawContent,
                                  !.parsed = parseAIResponseText(rawContent)]
       IN IF ~sent.parsed.ok
          THEN Set(r, Done(sent, Resp(500, FALSE, "Invalid response format from AI", 0)))
          ELSE Set(r, [sent EXCEPT !.pc = "insert",
                 !.cq = processedCrossQuestions(JUndef, Titles[req[r].title])])
  /\ UNCHANGED <<topics, versions, pointers>>

ParseReq(kind, rawContent, parsed) ==
  [IdleReq EXCEPT !.kind = kind, !.pc = "done", !.raw = rawContent, !.parsed = parsed]

\* The second parseAIResponse of _shared/utils.ts on a text.
ParseText2(r) ==
  /\ CanStart(r)
  /\ \E rawContent \in RawTexts :
       Set(r, ParseReq("parse2", rawContent, parseAIResponseText2(rawContent)))
  /\ UNCHANGED <<topics, versions, pointers>>

\* The parse steps of part_001's generateTopicContent on a text.
Gc1TextParse(r) ==
  /\ CanStart(r)
  /\ \E rawContent \in RawTexts :
       Set(r, ParseReq("gc1_parse", rawContent, Gc1ParseText(rawContent)))
  /\ UNCHANGED <<topics, versions, pointers>>

NextParse ==
  \E r \in Reqs :
    \/ GtcServe(r)
    \/ GtcTextCall(r)
    \/ GtcInsert(r)
    \/ GtcUpsert(r)
    \/ ParseText2(r)
    \/ Gc1TextParse(r)

SpecParse == Init /\ [][NextParse]_vars

(* ------------- the invoker on the body of a model response ------------ *)
\* The JSON body of a 2xx response of the model endpoint, as far as it is read:
\* choices may be missing or empty, the first choice may lack its message and
\* the message its content.
Message(content) == [t |-> "obj", content |-> content]
Choice(message) == [t |-> "obj", message |-> message]
ResponseBody(choices) == [t |-> "obj", choices |-> choices]
ContentTexts == {TextEmptyObject, TextFlatObject}
ResponseBodies ==
  { ResponseBody(JUndef), ResponseBody(JArr(<<>>)),
    ResponseBody(JArr(<<Choice(JUndef)>>)),
    ResponseBody(JArr(<<Choice(Message(JUndef))>>)) }
  \cup { ResponseBody(JArr(<<Choice(Message(JStr(text)))>>)) : text \in ContentTexts }

\* data.choices?.[0]?.message?.content
OptionalContent(data) ==
  IF data.choices = JUndef \/ data.choices.a = <<>> THEN JUndef
  ELSE IF data.choices.a[1].message = JUndef THEN JUndef
  ELSE data.choices.a[1].message.content

\* A function that returned undefined.
ReturnedUndefined == [ok |-> TRUE, val |-> <<>>, error |-> "undefined"]

\* _shared/utils.ts, first callOpenAI, after the status check:
\* data.choices?.[0]?.message?.content ?? '{}'
callOpenAI(data) ==
  IF OptionalContent(data) = JUndef THEN Returned(TextEmptyObject)
  ELSE Returned(OptionalContent(data).s)

\* _shared/utils.ts, second callOpenAI, after the status check:
\* data.choices[0].message.content, a property read of undefined throws.
callOpenAI2(data) ==
  IF data.choices = JUndef THEN Thrown("TypeError")
  ELSE IF data.choices.a = <<>> THEN Thrown("TypeError")
  ELSE IF data.choices.a[1].message = JUndef THEN Thrown("TypeError")
  ELSE IF data.choices.a[1].message.content = JUndef THEN ReturnedUndefined
  ELSE Returned(data.choices.a[1].message.content.s)

\* generate-topic-content: callOpenAI on the response body, parseAIResponse on
\* its text, the destructured fields (the texts hold none of the three
\* members), the cross-question rule, and `key_points || []`, `script || ''`.
GtcBodyCall(r) ==
  /\ req[r].kind = "gtc" /\ req[r].pc = "call"
  /\ \E data \in ResponseBodies :
       LET rawContent == callOpenAI(data)
           sent == [req[r] EXCEPT !.calls = @ + 1, !.upstream = 200,
                                  !.body = data, !.invoked = rawContent,
                                  !.raw = rawContent.val,
                                  !.parsed = parseAIResponseText(rawContent.val)]
       IN IF ~sent.parsed.ok
          THEN Set(r, Done(sent, Resp(500, FALSE, "Invalid response format from AI", 0)))
          ELSE Set(r, [sent EXCEPT !.pc = "insert", !.bullets = <<>>, !.script = "",
                 !.cq = processedCrossQuestions(JUndef, Titles[req[r].title])])
  /\ UNCHANGED <<topics, versions, pointers>>

InvokeReq(kind, data, result) ==
  [IdleReq EXCEPT !.kind = kind, !.pc = "done", !.body = data, !.invoked = result]

\* The first callOpenAI of _shared/utils.ts on a response body.
Invoke(r) ==
  /\ CanStart(r)
  /\ \E data \in ResponseBodies : Set(r, InvokeReq("invoke", data, callOpenAI(data)))
  /\ UNCHANGED <<topics, versions, pointers>>

\* The second callOpenAI of _shared/utils.ts on a response body.
Invoke2(r) ==
  /\ CanStart(r)
  /\ \E data \in ResponseBodies : Set(r, InvokeReq("invoke2", data, callOpenAI2(data)))
  /\ UNCHANGED <<topics, versions, pointers>>

NextInvoke ==
  \E r \in Reqs :
    \/ GtcServe(r)
    \/ GtcBodyCall(r)
    \/ GtcInsert(r)
    \/ GtcUpsert(r)
    \/ Invoke(r)
    \/ Invoke2(r)

SpecInvoke == Init /\ [][NextInvoke]_vars

(* ----------------------- InterviewSimulator --------------------------- *)
\* The component is mounted in a slot; its state variables are the fields.
Screens == {1}
MaxResponses == 4

InterviewTypes == {"technical", "behavioral", "system-design", "mixed"}
Durations == {30, 45, 60}

\* Math.ceil(duration / 15)
QuestionBudget(duration) == (duration + 14) \div 15

\* Array.prototype.slice(0, n)
Slice(list, n) == SubSeq(list, 1, IF n < Len(list) THEN n ELSE Len(list))

\* generateQuestions: the ids of the questions of the configured type, cut to
\* one question per fifteen minutes.
generateQuestions(type, duration) ==
  LET technical == <<1, 2>>
      behavioral == <<3, 4>>
      systemDesign == <<5>>
      selectedQuestions ==
        CASE type = "mixed" ->
               Slice(technical, 1) \o Slice(behavioral, 1) \o Slice(systemDesign, 1)
          [] type = "technical" -> technical
          [] type = "behavioral" -> behavioral
          [] type = "system-design" -> systemDesign
  IN Slice(selectedQuestions, QuestionBudget(duration))

\* useState initial values of InterviewSimulator.
SimulatorState ==
  [kind |-> "interview", pc |-> "mounted", stage |-> "setup",
   type |-> "technical", duration |-> 45, currentQuestionIndex |-> 0,
   questions |-> <<>>, responses |-> <<>>, currentResponse |-> "",
   isActive |-> FALSE]

SimMount(r) ==
  /\ CanStart(r)
  /\ Set(r, SimulatorState)
  /\ UNCHANGED <<topics, versions, pointers>>

OnSim(r, stage) == req[r].kind = "interview" /\ req[r].stage = stage

\* The selects of the setup card.
SimSetConfig(r) ==
  /\ OnSim(r, "setup")
  /\ \E type \in InterviewTypes, duration \in Durations :
       Set(r, [req[r] EXCEPT !.type = type, !.duration = duration])
  /\ UNCHANGED <<topics, versions, pointers>>

startInterview(r) ==
  /\ OnSim(r, "setup")
  /\ Set(r, [req[r] EXCEPT !.questions = generateQuestions(req[r].type, req[r].duration),
                           !.stage = "introduction", !.isActive = TRUE])
  /\ UNCHANGED <<topics, versions, pointers>>

\* The button of the introduction card.
SimBegin(r) ==
  /\ OnSim(r, "introduction")
  /\ Set(r, [req[r] EXCEPT !.stage = "questions"])
  /\ UNCHANGED <<topics, versions, pointers>>

\* The questions card is rendered for a non-empty question list.
QuestionsShown(r) == OnSim(r, "questions") /\ Len(req[r].questions) > 0

\* The textarea of the questions card.
SimType(r) ==
  /\ QuestionsShown(r)
  /\ \E text \in {"", "answer"} :
       /\ text # req[r].currentResponse
       /\ Set(r, [req[r] EXCEPT !.currentResponse = text])
  /\ UNCHANGED <<topics, versions, pointers>>

endInterview(rec) == [rec EXCEPT !.isActive = FALSE, !.stage = "feedback"]

\* The button is disabled while the response is blank.
nextQuestion(r) ==
  /\ QuestionsShown(r)
  /\ req[r].currentResponse # ""
  /\ Len(req[r].responses) < MaxResponses
  /\ LET answered == [req[r] EXCEPT !.responses = Append(@, req[r].currentResponse)]
     IN IF req[r].currentQuestionIndex < Len(req[r].questions) - 1
        THEN Set(r, [answered EXCEPT !.currentQuestionIndex = @ + 1,
                                     !.currentResponse = ""])
        ELSE Set(r, endInterview(answered))
  /\ UNCHANGED <<topics, versions, pointers>>

\* The End Interview button.
SimEnd(r) ==
  /\ QuestionsShown(r)
  /\ Set(r, endInterview(req[r]))
  /\ UNCHANGED <<topics, versions, pointers>>

\* The Try Again button of the feedback card.
SimTryAgain(r) ==
  /\ OnSim(r, "feedback")
  /\ Set(r, [req[r] EXCEPT !.stage = "setup"])
  /\ UNCHANGED <<topics, versions, pointers>>

NextInterview ==
  \E r \in Screens :
    \/ SimMount(r)
    \/ SimSetConfig(r)
    \/ startInterview(r)
    \/ SimBegin(r)
    \/ SimType(r)
    \/ nextQuestion(r)
    \/ SimEnd(r)
    \/ SimTryAgain(r)

SpecInterview == Init /\ [][NextInterview]_vars

(* --------------------------- PracticeMode ----------------------------- *)
\* Intervals are numbered as they are created; the timer and the number of
\* microphone requests awaiting the user are capped.
MaxIntervals == 3
MaxTimer == 2
MaxPending == 2

stages == <<"preparation", "speaking", "questions", "review">>

indexOf(list, item) ==
  IF \E i \in 1..Len(list) : list[i] = item
  THEN CHOOSE i \in 1..Len(list) : list[i] = item /\ \A j \in 1..(i - 1) : list[j] # item
  ELSE 0

\* useState and useRef initial values of PracticeMode; intervals holds the
\* live intervals of the page, created counts those ever made.
PracticeState ==
  [kind |-> "practice", pc |-> "mounted", stage |-> "preparation",
   isRecording |-> FALSE, isPaused |-> FALSE, timer |-> 0, pending |-> 0,
   intervalRef |-> 0, intervals |-> {}, created |-> 0]

PmMount(r) ==
  /\ CanStart(r)
  /\ Set(r, PracticeState)
  /\ UNCHANGED <<topics, versions, pointers>>

OnPractice(r) == req[r].kind = "practice"

\* setInterval, its id kept in intervalRef.current.
startTimer(rec) ==
  [rec EXCEPT !.created = @ + 1, !.intervalRef = rec.created + 1,
              !.intervals = @ \cup {rec.created + 1}]

\* clearInterval(intervalRef.current), if the ref is set.
pauseTimer(rec) == [rec EXCEPT !.intervals = @ \ {rec.intervalRef}]

resetTimer(rec) == [pauseTimer(rec) EXCEPT !.timer = 0]

\* The callback of a live interval.
PmTick(r) ==
  /\ OnPractice(r) /\ req[r].intervals # {}
  /\ req[r].timer < MaxTimer
  /\ Set(r, [req[r] EXCEPT !.timer = @ + 1])
  /\ UNCHANGED <<topics, versions, pointers>>

\* startRecording up to its await: the button is shown while not recording.
PmStartRecording(r) ==
  /\ OnPractice(r) /\ req[r].stage = "speaking" /\ ~req[r].isRecording
  /\ req[r].pending < MaxPending
  /\ Set(r, [req[r] EXCEPT !.pending = @ + 1])
  /\ UNCHANGED <<topics, versions, pointers>>

\* getUserMedia resolves: the rest of startRecording; or it rejects.
PmMicrophone(r) ==
  /\ OnPractice(r) /\ req[r].pending > 0
  /\ \E granted \in BOOLEAN :
       LET resumed == [req[r] EXCEPT !.pending = @ - 1]
       IN IF granted
          THEN /\ req[r].created < MaxIntervals
               /\ Set(r, startTimer([resumed EXCEPT !.isRecording = TRUE]))
          ELSE Set(r, resumed)
  /\ UNCHANGED <<topics, versions, pointers>>

stopRecording(r) ==
  /\ OnPractice(r) /\ req[r].stage = "speaking" /\ req[r].isRecording
  /\ Set(r, pauseTimer([req[r] EXCEPT !.isRecording = FALSE]))
  /\ UNCHANGED <<topics, versions, pointers>>

togglePause(r) ==
  /\ OnPractice(r) /\ req[r].stage = "speaking" /\ req[r].isRecording
  /\ IF req[r].isPaused
     THEN /\ req[r].created < MaxIntervals
          /\ Set(r, [startTimer(req[r]) EXCEPT !.isPaused = FALSE])
     ELSE Set(r, [pauseTimer(req[r]) EXCEPT !.isPaused = TRUE])
  /\ UNCHANGED <<topics, versions, pointers>>

\* The buttons that call nextStage: always on the preparation and questions
\* cards, on the speaking card once a recording has stopped with time on the
\* clock; the review card has none.
nextStage(r) ==
  /\ OnPractice(r)
  /\ \/ req[r].stage \in {"preparation", "questions"}
     \/ req[r].stage = "speaking" /\ ~req[r].isRecording /\ req[r].timer > 0
  /\ LET currentIndex == indexOf(stages, req[r].stage)
         moved == [req[r] EXCEPT !.stage = stages[currentIndex + 1]]
     IN /\ currentIndex < Len(stages)
        /\ Set(r, IF stages[currentIndex + 1] = "speaking" THEN resetTimer(moved)
                  ELSE moved)
  /\ UNCHANGED <<topics, versions, pointers>>

NextPractice ==
  \E r \in Screens :
    \/ PmMount(r)
    \/ PmTick(r)
    \/ PmStartRecording(r)
    \/ PmMicrophone(r)
    \/ stopRecording(r)
    \/ togglePause(r)
    \/ nextStage(r)

SpecPractice == Init /\ [][NextPractice]_vars

(* ------------------- the slug of a title, on its own ------------------ *)
MaxTitleLen == 3

TitleChars == {"a", "B", "1", "-", " "}

RECURSIVE TextsUpTo(_)
TextsUpTo(n) ==
  IF n = 0 THEN {<<>>}
  ELSE TextsUpTo(n - 1) \cup
       { Append(t, c) : t \in {u \in TextsUpTo(n - 1) : Len(u) = n - 1}, c \in TitleChars }

SlugTitles == TextsUpTo(MaxTitleLen)

\* create-custom-topic derives the slug of the title it was sent.
CctSlug(r) ==
  /\ CanStart(r)
  /\ \E title \in SlugTitles :
       Set(r, [kind |-> "cct_slug", pc |-> "again", title |-> title,
               slug |-> Slug(title), again |-> <<>>])
  /\ UNCHANGED <<topics, versions, pointers>>

\* The derived slug is sent back as the title of a further topic.
CctSlugAgain(r) ==
  /\ req[r].kind = "cct_slug" /\ req[r].pc = "again"
  /\ Set(r, [req[r] EXCEPT !.pc = "done", !.again = Slug(req[r].slug)])
  /\ UNCHANGED <<topics, versions, pointers>>

NextSlug == \E r \in Reqs : CctSlug(r) \/ CctSlugAgain(r)

SpecSlug == Init /\ [][NextSlug]_vars

(* ---------------------- default topic structures ---------------------- *)
\* CORE_TOPICS of create-default-topics and of generate_default_tabs.
CORE_TOPICS ==
  <<<<"i", "n", "t", "r", "o", "d", "u", "c", "t", "i", "o", "n", "-",
    "s", "u", "m", "m", "a", "r", "y">>,
    <<"r", "e", "c", "e", "n", "t", "-", "p", "r", "o", "j", "e", "c", "t",
      "s", "-", "e", "x", "p", "e", "r", "i", "e", "n", "c", "e">>,
    <<"t", "e", "c", "h", "n", "i", "c", "a", "l", "-", "s", "k", "i", "l",
      "l", "s", "-", "t", "e", "c", "h", "n", "o", "l", "o", "g", "i", "e",
      "s">>,
    <<"p", "r", "o", "b", "l", "e", "m", "-", "s", "o", "l", "v", "i", "n",
      "g", "-", "t", "r", "o", "u", "b", "l", "e", "s", "h", "o", "o", "t",
      "i", "n", "g">>>>

\* defaultTopics of the client.
defaultTopics ==
  <<<<"i", "n", "t", "r", "o", "d", "u", "c", "t", "i", "o", "n", "-",
    "s", "u", "m", "m", "a", "r", "y">>,
    <<"r", "e", "c", "e", "n", "t", "-", "p", "r", "o", "j", "e", "c", "t",
      "s">>,
    <<"c", "o", "l", "l", "a", "b", "o", "r", "a", "t", "i", "o", "n", "-",
      "l", "e", "a", "d", "e", "r", "s", "h", "i", "p">>,
    <<"p", "r", "e", "s", "s", "u", "r", "e", "-", "d", "e", "a", "d", "l",
      "i", "n", "e", "s">>,
    <<"a", "p", "a", "c", "h", "e", "-", "k", "a", "f", "k", "a">>,
    <<"a", "p", "a", "c", "h", "e", "-", "s", "p", "a", "r", "k">>,
    <<"p", "y", "t", "h", "o", "n", "-", "d", "a", "t", "a", "-", "p", "r",
      "o", "c", "e", "s", "s", "i", "n", "g">>,
    <<"d", "a", "t", "a", "b", "a", "s", "e", "s", "-", "s", "q", "l">>,
    <<"a", "w", "s", "-", "s", "e", "r", "v", "i", "c", "e", "s">>,
    <<"a", "z", "u", "r", "e", "-", "s", "e", "r", "v", "i", "c", "e", "s">>,
    <<"s", "y", "s", "t", "e", "m", "-", "d", "e", "s", "i", "g", "n", "-",
      "a", "r", "c", "h", "i", "t", "e", "c", "t", "u", "r", "e">>,
    <<"r", "e", "a", "l", "t", "i", "m", "e", "-", "b", "a", "t", "c", "h",
      "-", "p", "r", "o", "c", "e", "s", "s", "i", "n", "g">>,
    <<"s", "e", "c", "u", "r", "i", "t", "y", "-", "c", "o", "m", "p", "l",
      "i", "a", "n", "c", "e">>,
    <<"c", "i", "c", "d", "-", "d", "e", "v", "o", "p", "s">>,
    <<"d", "a", "t", "a", "-", "q", "u", "a", "l", "i", "t", "y", "-", "g",
      "o", "v", "e", "r", "n", "a", "n", "c", "e">>,
    <<"c", "o", "s", "t", "-", "o", "p", "t", "i", "m", "i", "z", "a", "t",
      "i", "o", "n">>>>

\* A bulk insert of one row per slug for one user: all rows or none.
BulkAllowed(userId, slugs) ==
  \A i \in 1..Len(slugs) : TopicInsertAllowed(userId, slugs[i])

BulkRows(userId, slugs) ==
  { TopicRow(Cardinality(topics) + i, userId, slugs[i]) : i \in 1..Len(slugs) }

\* fault records that the store failed a statement of this request for a
\* reason other than a constraint.
HasTopics(userId) == \E t \in topics : t.user_id = userId

DefaultResp(topicsCreated) ==
  [Resp(200, TRUE, "", 0) EXCEPT !.topicsCreated = topicsCreated]

\* part_000 (create-default-topics): userId of the body, the bearer
\* credential, and the comparison of the two.
CdtServe(r) ==
  /\ CanStart(r)
  /\ \E userId \in Users \cup {""}, cred \in Credentials :
       LET base == [IdleReq EXCEPT !.kind = "cdt", !.authed = (cred \in Users)]
       IN IF userId = ""
          THEN Set(r, Done(base, Resp(400, FALSE, "userId is required", 0)))
          ELSE IF authenticateUser(cred) = ""
          THEN Set(r, Done(base, Resp(500, FALSE, AuthError(cred), 0)))
          ELSE IF authenticateUser(cred) # userId
          THEN Set(r, Done(base, Resp(401, FALSE, "Unauthorized: userId mismatch", 0)))
          ELSE Set(r, [base EXCEPT !.pc = "check", !.user = userId,
                                   !.had = HasTopics(userId)])
  /\ UNCHANGED <<topics, versions, pointers>>

\* select id from topics where user_id = userId limit 1
CdtCheck(r) ==
  /\ req[r].kind = "cdt" /\ req[r].pc = "check"
  /\ \E checkError \in BOOLEAN :
       IF checkError
       THEN Set(r, Done([req[r] EXCEPT !.fault = TRUE],
                        Resp(500, FALSE, "checkError", 0)))
       ELSE IF HasTopics(req[r].user)
       THEN Set(r, Done(req[r], DefaultResp(0)))
       ELSE Set(r, [req[r] EXCEPT !.pc = "insert"])
  /\ UNCHANGED <<topics, versions, pointers>>

\* insert(topicsWithUserId).select()
CdtInsert(r) ==
  /\ req[r].kind = "cdt" /\ req[r].pc = "insert"
  /\ \E accepted \in BOOLEAN :
       IF accepted /\ BulkAllowed(req[r].user, CORE_TOPICS)
       THEN /\ topics' = topics \cup BulkRows(req[r].user, CORE_TOPICS)
            /\ Set(r, Done([req[r] EXCEPT
                              !.inserted = { t.id : t \in BulkRows(req[r].user, CORE_TOPICS) }],
                           DefaultResp(Len(CORE_TOPICS))))
       ELSE /\ topics' = topics
            /\ Set(r, Done([req[r] EXCEPT !.fault = @ \/ ~accepted],
                           Resp(500, FALSE, "insertError", 0)))
  /\ UNCHANGED <<versions, pointers>>

\* part_001, action generate_default_tabs: the credential is verified only
\* when a header is sent, and the rows are written for the userId of the body.
Gc1DefaultServe(r) ==
  /\ CanStart(r)
  /\ \E userId \in Users, cred \in Credentials :
       LET base == [IdleReq EXCEPT !.kind = "gc1_default", !.authed = (cred \in Users)]
       IN IF cred = "bad"
          THEN Set(r, Done(base, Resp(401, FALSE, "Unauthorized", 0)))
          ELSE Set(r, [base EXCEPT !.pc = "check", !.user = userId,
                                   !.had = HasTopics(userId)])
  /\ UNCHANGED <<topics, versions, pointers>>

\* The same lookup; its error is not looked at, and the answer for a user
\* with topics carries no topicsCreated.
Gc1DefaultCheck(r) ==
  /\ req[r].kind = "gc1_default" /\ req[r].pc = "check"
  /\ \E checkError \in BOOLEAN :
       IF ~checkError /\ HasTopics(req[r].user)
       THEN Set(r, Done(req[r], Resp(200, TRUE, "", 0)))
       ELSE Set(r, [req[r] EXCEPT !.pc = "insert", !.fault = checkError])
  /\ UNCHANGED <<topics, versions, pointers>>

Gc1DefaultInsert(r) ==
  /\ req[r].kind = "gc1_default" /\ req[r].pc = "insert"
  /\ \E accepted \in BOOLEAN :
       IF accepted /\ BulkAllowed(req[r].user, CORE_TOPICS)
       THEN /\ topics' = topics \cup BulkRows(req[r].user, CORE_TOPICS)
            /\ Set(r, Done([req[r] EXCEPT
                              !.inserted = { t.id : t \in BulkRows(req[r].user, CORE_TOPICS) }],
                           DefaultResp(Len(CORE_TOPICS))))
       ELSE /\ topics' = topics
            /\ Set(r, Done([req[r] EXCEPT !.fault = @ \/ ~accepted],
                           Resp(500, FALSE, "insertError", 0)))
  /\ UNCHANGED <<versions, pointers>>

\* Dashboard.tsx: the signed-in user's client looks for any topic of its own.
FeDefaultServe(r) ==
  /\ CanStart(r)
  /\ \E userId \in Users :
       Set(r, [IdleReq EXCEPT !.kind = "fe_default", !.pc = "check",
                              !.authed = TRUE,
                              !.user = userId, !.had = HasTopics(userId)])
  /\ UNCHANGED <<topics, versions, pointers>>

\* Only the data of the lookup is read: a failed lookup counts as no topics.
FeDefaultCheck(r) ==
  /\ req[r].kind = "fe_default" /\ req[r].pc = "check"
  /\ \E checkError \in BOOLEAN :
       IF ~checkError /\ HasTopics(req[r].user)
       THEN Set(r, Done(req[r], DefaultResp(0)))
       ELSE Set(r, [req[r] EXCEPT !.pc = "insert", !.fault = checkError])
  /\ UNCHANGED <<topics, versions, pointers>>

\* defaultTopics.ts, createDefaultTopics: the bulk insert; an error is thrown.
createDefaultTopics(r) ==
  /\ req[r].kind = "fe_default" /\ req[r].pc = "insert"
  /\ \E accepted \in BOOLEAN :
       IF accepted /\ BulkAllowed(req[r].user, defaultTopics)
       THEN /\ topics' = topics \cup BulkRows(req[r].user, defaultTopics)
            /\ Set(r, Done([req[r] EXCEPT
                              !.inserted = { t.id : t \in BulkRows(req[r].user, defaultTopics) }],
                           DefaultResp(Len(defaultTopics))))
       ELSE /\ topics' = topics
            /\ Set(r, Done([req[r] EXCEPT !.fault = @ \/ ~accepted],
                           Resp(0, FALSE, "error", 0)))
  /\ UNCHANGED <<versions, pointers>>

NextDefault ==
  \E r \in Reqs :
    \/ CdtServe(r)
    \/ CdtCheck(r)
    \/ CdtInsert(r)
    \/ Gc1DefaultServe(r)
    \/ Gc1DefaultCheck(r)
    \/ Gc1DefaultInsert(r)
    \/ FeDefaultServe(r)
    \/ FeDefaultCheck(r)
    \/ createDefaultTopics(r)

SpecDefault == Init /\ [][NextDefault]_vars

Spec == Init /\ [][Next]_vars

(* ============================== properties ============================ *)
AllCompleted == \A r \in Reqs : req[r].pc \in {"idle", "done"}

\* Request r has inserted version v and written the pointer for it.
Wrote(r, v) == req[r].pc = "done" /\ req[r].ver = v

(* ------------------------------- C1 ----------------------------------- *)
\* C1: every ContentVersion row written by any handler has a non-empty
\* cross_questions list (a list with at least one entry).
C1_CrossQuestionsNeverEmpty ==
  \A v \in VersionIds :
    /\ versions[v].cross_questions.t = "arr"
    /\ Len(versions[v].cross_questions.a) > 0

(* ------------------------------- C2 ----------------------------------- *)
\* C2 as stated: once every request has run to completion, the pointer of each
\* topic that has versions references the version inserted last.
C2_PointerAlwaysLatest ==
  AllCompleted =>
    \A t \in TopicIds :
      VersionsOf(t) # {} =>
        \E p \in PointersOf(t) : p.version_id = LatestVersionOf(t)

\* Every version of topic t was written by a request whose pointer write the
\* store accepted and which ran it while its version was still the newest.
WrittenInOrder(t) ==
  \A v \in VersionsOf(t) :
    \E r \in Reqs : Wrote(r, v) /\ req[r].upsertOk /\ ~req[r].stale

\* C2, amended: once every request has run to completion, the pointer of a
\* topic references its last-inserted version provided every pointer write
\* on the topic was accepted and none ran after a newer version had been
\* inserted by another request.
C2_PointerLatestWhenInOrder ==
  AllCompleted =>
    \A t \in TopicIds :
      (VersionsOf(t) # {} /\ WrittenInOrder(t)) =>
        /\ Cardinality(PointersOf(t)) = 1
        /\ \A p \in PointersOf(t) : p.version_id = LatestVersionOf(t)

\* Two regenerations of one topic, one after the other, both accepted.
C2_Witness ==
  /\ AllCompleted
  /\ \E t \in TopicIds :
       /\ Cardinality(VersionsOf(t)) >= 2
       /\ WrittenInOrder(t)
       /\ \E p \in PointersOf(t) : p.version_id = LatestVersionOf(t)

(* ------------------------------- C3 ----------------------------------- *)
\* Request r takes its pointer-write step and the store accepts the write.
AcceptedPointerWrite(r) ==
  /\ req[r].pc \in {"upsert", "pointer"}
  /\ req'[r].pc = "done"
  /\ req'[r].upsertOk

\* Requests a and b regenerated the same topic, both inserted before either
\* wrote the pointer (the older version was stale at its write), both writes
\* were accepted, and the topic has no other version.
RacedOn(a, b, t) ==
  /\ a # b
  /\ req[a].pc = "done" /\ req[b].pc = "done"
  /\ req[a].ver \in VersionsOf(t) /\ req[b].ver \in VersionsOf(t)
  /\ req[a].ver < req[b].ver
  /\ req[a].stale
  /\ req[a].upsertOk /\ req[b].upsertOk
  /\ VersionsOf(t) = {req[a].ver, req[b].ver}

\* C3: every accepted pointer write leaves the pointer of its topic on the
\* writer's own version (so the write executed last decides), and after two
\* raced regenerations of a topic the pointer exists and references one of
\* the two new versions.
C3_LastUpsertWins ==
  /\ [][\A r \in Reqs :
          AcceptedPointerWrite(r) =>
            /\ Cardinality(PointersOf(req[r].topic)') = 1
            /\ \A p \in PointersOf(req[r].topic)' : p.version_id = req[r].ver]_vars
  /\ [](\A a, b \in Reqs : \A t \in TopicIds :
          RacedOn(a, b, t) =>
            /\ Cardinality(PointersOf(t)) = 1
            /\ \A p \in PointersOf(t) : p.version_id \in {req[a].ver, req[b].ver})

\* The race has happened and the older version won: its write ran last.
C3_Witness ==
  \E a, b \in Reqs : \E t \in TopicIds :
    /\ RacedOn(a, b, t)
    /\ \E p \in PointersOf(t) : p.version_id = req[a].ver

(* ------------------------------- C4 ----------------------------------- *)
\* C4: in every reachable state each pointer row's version_id references an
\* existing version row whose topic_id equals the pointer's topic_id.
C4_PointerTargetsOwnTopic ==
  \A p \in pointers :
    /\ p.version_id \in VersionIds
    /\ versions[p.version_id].topic_id = p.topic_id

\* A pointer row exists while another topic has a version of its own.
C4_Witness ==
  \E p \in pointers :
    \E v \in VersionIds : versions[v].topic_id # p.topic_id

(* ------------------------------- C5 ----------------------------------- *)
\* C5 as stated: once a generation request has completed for a topic that
\* has at least one version, exactly one pointer row exists for the topic,
\* also when the store rejected the pointer write.
C5_ExactlyOnePointer ==
  \A r \in Reqs :
    (req[r].pc = "done" /\ req[r].ver \in VersionIds) =>
      Cardinality(PointersOf(versions[req[r].ver].topic_id)) = 1

\* C5, amended: no topic ever has more than one pointer row, and a topic has
\* exactly one once a request has completed whose pointer write on it the
\* store accepted.
C5_OnePointerOnceAccepted ==
  /\ \A p, q \in pointers : p.topic_id = q.topic_id => p = q
  /\ \A r \in Reqs :
       (req[r].pc = "done" /\ req[r].ver \in VersionIds /\ req[r].upsertOk) =>
         Cardinality(PointersOf(versions[req[r].ver].topic_id)) = 1

\* A topic regenerated twice, both pointer writes accepted: still one row.
C5_Witness ==
  \E a, b \in Reqs :
    /\ a # b
    /\ req[a].pc = "done" /\ req[b].pc = "done"
    /\ req[a].upsertOk /\ req[b].upsertOk
    /\ req[a].ver \in VersionIds /\ req[b].ver \in VersionIds
    /\ versions[req[a].ver].topic_id = versions[req[b].ver].topic_id
    /\ Cardinality(PointersOf(versions[req[a].ver].topic_id)) = 1

(* ------------------------------- C9 ----------------------------------- *)
\* C9: when the model endpoint answered a request with a non-2xx status, the
\* caller receives an error that carries that status, and the request has
\* written no version and no pointer.
C9_UpstreamErrorReported ==
  \A r \in Reqs :
    (req[r].pc = "done" /\ req[r].upstream \notin {0, 200}) =>
      /\ req[r].resp.success = FALSE
      /\ req[r].resp.code = req[r].upstream
      /\ req[r].ver = 0

(* ------------------------------- C6 ----------------------------------- *)
BatchKinds == {"ad", "gc1_tabs"}

Range(f) == {f[i] : i \in DOMAIN f}

ProposedSlugs(r) == {Proposals[i].slug : i \in Range(req[r].proposed)}

\* A topic row no request of the run has inserted: it was there before.
Preexisting(t) == \A q \in Reqs : t.id \notin req[q].inserted

Answered(r) ==
  req[r].kind \in BatchKinds /\ req[r].pc = "done" /\ req[r].resp.http = 200

\* C6: however batch runs over the same proposals interleave, no (owner,
\* slug) pair has two rows, every row is one that was there before or that
\* one run inserted for a proposed slug of its owner, and a run that answers
\* lists the row found by (owner, slug) instead of inserting it again.
C6_BatchIsIdempotent ==
  /\ \A a, b \in topics :
       (a.user_id = b.user_id /\ a.slug = b.slug) => a = b
  /\ \A t \in topics :
       \/ Preexisting(t)
       \/ \E r \in Reqs : /\ t.id \in req[r].inserted
                          /\ t.user_id = req[r].user
                          /\ t.slug \in ProposedSlugs(r)
  /\ \A r \in Reqs :
       Answered(r) =>
         \A t \in topics :
           (Preexisting(t) /\ t.user_id = req[r].user /\ t.slug \in ProposedSlugs(r))
             => (t.id \in Range(req[r].createdTopics) /\ t.id \notin req[r].inserted)

\* The same list ran twice for one owner: one run inserted the row, the
\* other lists that row and inserted nothing.
C6_Witness ==
  \E a, b \in Reqs :
    /\ a # b /\ Answered(a) /\ Answered(b)
    /\ req[a].user = req[b].user
    /\ req[a].proposed = req[b].proposed /\ req[a].proposed # <<>>
    /\ req[a].inserted # {} /\ req[b].inserted = {}
    /\ req[a].inserted \subseteq Range(req[b].createdTopics)

(* ------------------------------- C7 ----------------------------------- *)
\* C7: a batch response that lists all N topic references reports as
\* topicsCreated the number of rows this request inserted (N - K).
C7_TopicsCreatedCountsNewRows ==
  \A r \in Reqs :
    (Answered(r) /\ Len(req[r].resp.topics) = Len(req[r].proposed)) =>
      req[r].resp.topicsCreated = Cardinality(req[r].inserted)

(* ------------------------------- C8 ----------------------------------- *)
\* C8: a batch run that reaches a topic which already has a pointer row does
\* not go on to generate content for it (no model call, no version insert,
\* no pointer write), whatever number of versions the topic has.
C8_PointedTopicsUntouched ==
  [][\A r \in Reqs :
       (/\ req[r].kind = "gc1_tabs"
        /\ req[r].pc = "check"
        /\ PointersOf(req[r].topic) # {})
         => req'[r].pc # "call"]_vars

(* ------------------------------- C10 ---------------------------------- *)
\* C10: for a single-topic request whose sourceNotes is the empty string the
\* user prompt carries the limited-source guidance and not the "Use the
\* specific details" guidance.
C10_EmptyNotesLimitedGuidance ==
  \A r \in Reqs :
    (req[r].kind = "gtc_prompt" /\ req[r].sourceNotes = <<>>) =>
      (req[r].guidance = SourceLimited /\ req[r].guidance # UseSpecificDetails)

\* A parser has run on the text this request holds.
ParsedText(r) == req[r].parsed # NotParsed

\* C11: the parser returns JSON.parse(input) for every valid JSON text, and
\* for every valid JSON value wrapped in a triple-backtick fence (with or
\* without the json tag, whitespace or prose around it) it returns the value
\* of the fenced body.
C11_FencedParsesAsBody ==
  \A r \in Reqs :
    ParsedText(r) =>
      /\ JSONParseText(req[r].raw).ok => req[r].parsed = JSONParseText(req[r].raw)
      /\ \A f \in FencedTexts :
           req[r].raw = f.raw => req[r].parsed = JSONParseText(f.body)

\* The errors parseAIResponse raises: an Error with one of three messages.
ParseErrors ==
  {"Error: Invalid response format from AI", "Error: Invalid JSON",
   "Error: No valid JSON found"}

\* C12: on a text that is neither JSON nor holds a fenced JSON block,
\* parseAIResponse raises its own error and returns no value; whenever it
\* raises, the error is one of its own, and the handler that called it has
\* inserted no version row and answers with a failure.
C12_GarbageRaisesParseError ==
  \A r \in Reqs :
    (ParsedText(r) /\ req[r].kind \in {"gtc", "parse2"}) =>
      /\ req[r].raw \in GarbageTexts => ~req[r].parsed.ok
      /\ ~req[r].parsed.ok =>
           /\ req[r].parsed.error \in ParseErrors
           /\ req[r].parsed.val = <<>>
           /\ req[r].kind = "gtc" =>
                /\ req[r].pc = "done"
                /\ req[r].ver = 0
                /\ ~req[r].resp.success
                /\ Len(versions) = Cardinality({q \in Reqs : req[q].ver # 0})

\* A handler was answered with a text that is not JSON, while another
\* request of the same run did insert a row.
C12_Witness ==
  \E r, q \in Reqs :
    /\ req[r].kind = "gtc" /\ req[r].raw \in GarbageTexts /\ req[r].pc = "done"
    /\ req[r].parsed.error = "Error: Invalid response format from AI"
    /\ req[q].ver # 0

\* C13: deriving a slug is idempotent: the slug of a slug is that slug.
C13_SlugIdempotent ==
  \A r \in Reqs :
    (req[r].kind = "cct_slug" /\ req[r].pc = "done") => req[r].again = req[r].slug

\* A title that the derivation changed (case, a run replaced, an end stripped)
\* has been through it twice.
C13_Witness ==
  \E r \in Reqs :
    /\ req[r].kind = "cct_slug" /\ req[r].pc = "done"
    /\ req[r].title = <<" ", "B", "-">>
    /\ req[r].slug = <<"b">>

DefaultKinds == {"cdt", "gc1_default", "fe_default"}

\* C14: creating the default topics is idempotent: a request for a user who
\* already has a topic inserts nothing and reports success; whatever the
\* requests and their interleaving, a user holds each slug at most once, and
\* every request that was let in and that the store did not fail ends with a
\* success response.
C14_DefaultTopicsIdempotent ==
  /\ \A t1, t2 \in topics :
       (t1.user_id = t2.user_id /\ t1.slug = t2.slug) => t1 = t2
  /\ \A r \in Reqs :
       (/\ req[r].kind \in DefaultKinds /\ req[r].pc = "done"
        /\ req[r].user # "" /\ ~req[r].fault) =>
         /\ req[r].resp.success
         /\ req[r].had => req[r].inserted = {}

\* C15: a request without a valid bearer credential is turned away before
\* any work: it makes no model call and inserts or upserts no row.
C15_NoCredentialNoWork ==
  \A r \in Reqs :
    (req[r].kind # "idle" /\ ~req[r].authed) =>
      /\ req[r].calls = 0
      /\ req[r].ver = 0
      /\ req[r].inserted = {}
      /\ req[r].createdTopics = <<>>

\* C16: content stays with its owner: the owner of every version row and of
\* every pointer row is the owner of the topic the row references, so that
\* no caller creates or repoints a row on another user's topic.
C16_RowsOwnedByTopicOwner ==
  \A t \in topics :
    /\ \A v \in VersionIds :
         versions[v].topic_id = t.id => versions[v].user_id = t.user_id
    /\ \A p \in pointers :
         p.topic_id = t.id => p.user_id = t.user_id

\* The single-topic handlers that answer on the outcome of their insert.
Regenerations == {"gtc", "cct"}

C18_TopicStateMovesForward ==
  [][\A t \in topics :
       /\ t \in topics'
       /\ \A v \in VersionsOf(t.id) :
            v <= Len(versions') /\ versions'[v].topic_id = t.id
       /\ PointersOf(t.id) # {} => \E p \in pointers' : p.topic_id = t.id]_vars

\* A topic that had a version and a pointer was generated again: it holds two
\* versions and its pointer, now on the second.
C18_Witness ==
  \E t \in topics :
    /\ Cardinality(VersionsOf(t.id)) = 2
    /\ \E p \in PointersOf(t.id) : p.version_id = 2
    /\ \E r \in Reqs : req[r].ver = 1 /\ req[r].upsertOk

\* The batch handlers that generate content for each topic of the list.
LoopKinds == {"gc1_tabs", "gc0_auto"}

\* C19: in a batch run a topic whose row insert or content generation fails
\* is the only one skipped: a step inside the loop either stays on its topic
\* or moves to the next topic of the list, the handler answers only after the
\* last topic, and that answer is a success.
C19_FailureSkipsOneTopic ==
  [][\A r \in Reqs :
       (req[r].kind \in LoopKinds /\ req[r].batch # <<>> /\ req'[r] # req[r]) =>
         /\ req'[r].batch \in {req[r].batch, Tail(req[r].batch)}
         /\ req'[r].pc = "done" <=> req'[r].batch = <<>>
         /\ req'[r].pc = "done" => req'[r].resp.success
         /\ req'[r].proposed = req[r].proposed]_vars

\* A run over two different topics has answered: the first topic was left
\* without a row or without content, the second has a version of this run.
C19_Witness ==
  \E r \in Reqs :
    /\ req[r].kind \in LoopKinds /\ req[r].pc = "done" /\ req[r].resp.success
    /\ Len(req[r].proposed) = 2 /\ req[r].proposed[1] # req[r].proposed[2]
    /\ \A t \in TopicByOwnerSlug(req[r].user, Proposals[req[r].proposed[1]].slug) :
         VersionsOf(t.id) = {}
    /\ \E t \in TopicByOwnerSlug(req[r].user, Proposals[req[r].proposed[2]].slug) :
         \E v \in VersionsOf(t.id) : versions[v].user_id = req[r].user

\* The handlers that generate content for one topic.
SingleTopicKinds == {"gtc", "cct", "gc1_direct", "gc0_direct"}

\* C20: a single-topic generation answers success only when that request
\* inserted a version row.
C20_SuccessMeansInserted ==
  \A r \in Reqs :
    (req[r].kind \in SingleTopicKinds /\ req[r].pc = "done" /\ req[r].resp.success) =>
      /\ req[r].ver \in VersionIds
      /\ versions[req[r].ver].topic_id = req[r].topic

\* The steps that write topic_current_version after a version insert.
PointerSteps == {"upsert", "pointer"}

\* C21: in every generation path the pointer write comes only after the
\* version insert of the same request has succeeded, and carries the id that
\* insert returned: a request waits at its pointer write only while it holds
\* the id of a row it inserted for its topic, it gets there only by the step
\* that appended that row, a request whose insert failed answers at once,
\* and every row written to topic_current_version names the writer's row.
C21_UpsertOnlyAfterInsert ==
  /\ [](\A r \in Reqs :
          req[r].pc \in PointerSteps =>
            /\ req[r].ver \in VersionIds
            /\ versions[req[r].ver].topic_id = req[r].topic
            /\ versions[req[r].ver].user_id = req[r].user)
  /\ [][\A r \in Reqs :
          /\ (req[r].pc \notin PointerSteps /\ req'[r].pc \in PointerSteps) =>
               /\ Len(versions') = Len(versions) + 1
               /\ req'[r].ver = Len(versions')
          /\ (req[r].pc = "insert" /\ req'[r].pc # "insert" /\ versions' = versions) =>
               /\ req'[r].pc \notin PointerSteps
               /\ pointers' = pointers
          /\ (req[r].pc \notin PointerSteps /\ req'[r] # req[r]) => pointers' = pointers
          /\ (req[r].pc \in PointerSteps /\ req'[r] # req[r]) =>
               \A p \in pointers' \ pointers :
                 p.topic_id = req[r].topic /\ p.version_id = req[r].ver]_vars

\* One request wrote the pointer for the row it inserted while another
\* request's insert was refused and left the pointer alone.
C21_Witness ==
  \E r, q \in Reqs :
    /\ req[r].pc = "done" /\ req[r].ver \in VersionIds /\ req[r].upsertOk
    /\ \E p \in pointers : p.topic_id = req[r].topic /\ p.version_id = req[r].ver
    /\ req[q].pc = "done" /\ req[q].ver = 0 /\ req[q].calls = 1
    /\ req[q].resp.error = "insertError"

\* C22: a generate_single_topic_content request with a topicId, a topicTitle
\* and a valid bearer token ends with a new version row for that topic and a
\* success answer (no failure of the model or of the store has occurred by
\* then: the request made no model call and no write that could fail).
C22_SingleTopicContentSucceeds ==
  \A r \in Reqs :
    (/\ req[r].kind = "gc1_single" /\ req[r].pc = "done"
     /\ req[r].topic # 0 /\ Titles[req[r].title] # <<>> /\ req[r].authed
     /\ req[r].calls = 0) =>
      /\ req[r].resp.success
      /\ req[r].ver \in VersionIds

\* The runs of the prompt builder.
PromptKinds == {"gtc_prompt", "gc1_prompt", "gc0_prompt"}

\* C23: in every handler that builds the prompt, the "Use the specific
\* details" guidance is emitted exactly when the source text is longer than 50
\* characters and holds none of the markers "note:", "error extracting",
\* "requires integration" in any letter case; otherwise the limited-source
\* guidance is emitted.
C23_GuidanceIffMeaningful ==
  \A r \in Reqs :
    req[r].kind \in PromptKinds =>
      LET text == toLowerCase(req[r].sourceContent)
          meaningful == /\ Len(req[r].sourceContent) > MeaningfulLength
                        /\ ~includes(text, MarkerNote)
                        /\ ~includes(text, MarkerErrorExtracting)
                        /\ ~includes(text, MarkerRequiresIntegration)
      IN /\ meaningful => req[r].guidance = UseSpecificDetails
         /\ ~meaningful => req[r].guidance = SourceLimited

\* The steps of one topic's pipeline in part_001's loop, in program order.
StageOf(pc) ==
  CASE pc = "lookup" -> 1
    [] pc = "topic" -> 2
    [] pc = "check" -> 3
    [] pc = "call" -> 4
    [] pc = "insert" -> 5
    [] pc = "upsert" -> 6
    [] OTHER -> 0

\* The place in the list of the topic the loop is on.
Position(rec) == Len(rec.proposed) - Len(rec.batch) + 1

\* C24: within one batch request the loop handles the topics strictly one at
\* a time. While the loop runs, every model call of the earlier topics has
\* returned and at most the current topic's call was made; a step either moves
\* the current topic's pipeline forward, making a model call only in its call
\* step, or ends that pipeline and only then starts the lookup of the next
\* topic of the list, with nothing carried over.
C24_OneTopicAtATime ==
  /\ [](\A r \in Reqs :
          (req[r].kind = "gc1_tabs" /\ req[r].batch # <<>>) =>
            /\ StageOf(req[r].pc) \in 1..6
            /\ StageOf(req[r].pc) <= 4 => req[r].calls <= Position(req[r])
            /\ StageOf(req[r].pc) >= 5 => req[r].calls <= Position(req[r]) + 1)
  /\ [][\A r \in Reqs :
          (req[r].kind = "gc1_tabs" /\ req[r].batch # <<>> /\ req'[r] # req[r]) =>
            /\ req'[r].calls = req[r].calls + (IF req[r].pc = "call" THEN 1 ELSE 0)
            /\ \/ /\ req'[r].batch = req[r].batch
                  /\ StageOf(req'[r].pc) > StageOf(req[r].pc)
               \/ /\ StageOf(req[r].pc) >= 2
                  /\ req'[r].batch = Tail(req[r].batch)
                  /\ req'[r].pc = IF req'[r].batch = <<>> THEN "done" ELSE "lookup"
                  /\ req'[r].pc = "lookup" => req'[r].topic = 0 /\ req'[r].ver = 0]_vars

\* A run over two different topics has answered after three model calls, one
\* for the list and one for each topic in turn, and both topics have a version
\* of this run.
C24_Witness ==
  \E r \in Reqs :
    /\ req[r].kind = "gc1_tabs" /\ req[r].pc = "done" /\ req[r].calls = 3
    /\ Len(req[r].proposed) = 2 /\ req[r].proposed[1] # req[r].proposed[2]
    /\ \A i \in 1..2 :
         \E t \in TopicByOwnerSlug(req[r].user, Proposals[req[r].proposed[i]].slug) :
           /\ t.id \in req[r].inserted
           /\ \E v \in VersionsOf(t.id) : versions[v].user_id = req[r].user

\* The response body has no choices[0].message.content.
LacksContent(data) ==
  \/ data.choices = JUndef
  \/ data.choices.a = <<>>
  \/ data.choices.a[1].message = JUndef
  \/ data.choices.a[1].message.content = JUndef

\* C25: when a 2xx model response lacks choices[0].message.content the
\* invoker returns the text {} without raising, and the generation that
\* called it fails only on the store and persists a version with empty
\* bullets, an empty script and the four fallback cross-questions.
C25_MissingContentYieldsEmptyObject ==
  \A r \in Reqs :
    (req[r].invoked # NotParsed /\ LacksContent(req[r].body)) =>
      /\ req[r].invoked = Returned(TextEmptyObject)
      /\ (req[r].kind = "gtc" /\ req[r].pc = "done" /\ req[r].ver = 0) =>
           req[r].resp.error = "insertError"
      /\ (req[r].kind = "gtc" /\ req[r].ver # 0) =>
           /\ versions[req[r].ver].bullets = <<>>
           /\ versions[req[r].ver].script = ""
           /\ versions[req[r].ver].cross_questions =
                JArr(FallbackQuestions(Titles[req[r].title]))

\* The handlers that ask the model for topics and create them.
ProposeKinds == {"ad", "gc1_tabs"}

\* C26: a propose-and-create-topics request whose proposal step yields N
\* topics, all new to the owner and all inserted by it, has issued N + 1 model
\* calls when it answers, and each of the N topics has a version and a pointer.
C26_ProposeThenOneCallPerTopic ==
  \A r \in Reqs :
    (/\ req[r].kind \in ProposeKinds /\ req[r].pc = "done" /\ req[r].resp.success
     /\ Cardinality(req[r].inserted) = Len(req[r].proposed)) =>
      /\ req[r].calls = Len(req[r].proposed) + 1
      /\ \A t \in req[r].inserted : VersionsOf(t) # {} /\ PointersOf(t) # {}

\* The steps of a single-topic generation, in program order.
AttemptStage(pc) ==
  CASE pc = "topic" -> 1
    [] pc = "call" -> 2
    [] pc = "insert" -> 3
    [] pc = "upsert" -> 4
    [] pc = "done" -> 5
    [] OTHER -> 0

\* C27: a single generation attempt never retries.  It has issued at most one
\* request to the model endpoint at any time; each of its steps moves it
\* forward in program order, the model call being made by its call step only
\* and a version row being added by its insert step only, so that it inserts
\* at most one row whatever the outcome.
C27_NoRetry ==
  /\ [](\A r \in Reqs : req[r].kind \in SingleTopicKinds => req[r].calls <= 1)
  /\ [][\A r \in Reqs :
          (req[r].kind \in SingleTopicKinds /\ req'[r] # req[r]) =>
            /\ AttemptStage(req'[r].pc) > AttemptStage(req[r].pc)
            /\ req'[r].calls = req[r].calls + (IF req[r].pc = "call" THEN 1 ELSE 0)
            /\ Len(versions') <= Len(versions) + 1
            /\ versions' # versions => req[r].pc = "insert"]_vars

\* Two attempts have ended: one was refused by the model endpoint and left
\* after its single call without a row, the other made one call and inserted
\* one row.
C27_Witness ==
  \E r, q \in Reqs :
    /\ req[r].kind \in SingleTopicKinds /\ req[r].pc = "done"
    /\ req[r].calls = 1 /\ req[r].upstream # 200 /\ req[r].ver = 0
    /\ ~req[r].resp.success
    /\ req[q].kind \in SingleTopicKinds /\ req[q].pc = "done"
    /\ req[q].calls = 1 /\ req[q].ver \in VersionIds
    /\ Cardinality({v \in VersionIds : versions[v].topic_id = req[q].topic}) = 1

\* C28: a create-custom-topic request that has answered with a failure has
\* left the store as it found it: no topic row, no version row and no pointer
\* of this request exist.
C28_FailedCreateLeavesNothing ==
  \A r \in Reqs :
    (req[r].kind = "cct" /\ req[r].pc = "done" /\ ~req[r].resp.success) =>
      /\ {t \in topics : t.id = req[r].topic} = {}
      /\ req[r].ver = 0
      /\ PointersOf(req[r].topic) = {}

\* C29: in the InterviewSimulator, whenever the stage is 'questions' the
\* current question index lies within the question list, and at every time
\* the list of responses is no longer than the list of questions.
C29_QuestionIndexInRange ==
  \A r \in Reqs :
    req[r].kind = "interview" =>
      /\ req[r].stage = "questions" =>
           /\ 0 <= req[r].currentQuestionIndex
           /\ req[r].currentQuestionIndex < Len(req[r].questions)
      /\ Len(req[r].responses) <= Len(req[r].questions)

\* C30: in PracticeMode at most one timer interval is live at a time, and a
\* live interval exists exactly when a recording is running and not paused.
C30_OneTimerWhileRecording ==
  \A r \in Reqs :
    req[r].kind = "practice" =>
      /\ Cardinality(req[r].intervals) <= 1
      /\ req[r].intervals # {} <=> (req[r].isRecording /\ ~req[r].isPaused)

====
